---- MODULE Spec2Model ----
(***************************************************************************)
(* A model of memorypack-go: the Writer and Reader byte codecs, the field  *)
(* schema resolver with its process-wide cache, the reflective walker      *)
(* (writeValue / readValue / SerializeStruct / DeserializeStruct) and the  *)
(* public Serialize / Deserialize entry points.                            *)
(*                                                                         *)
(* Go values are modelled as follows.                                      *)
(*   bool            BOOLEAN                                               *)
(*   int8..int64,int an integer (64-bit kinds are exercised inside the     *)
(*                   range TLC's integers can hold)                        *)
(*   float32         [sign, exp, mant]            (IEEE 754 binary32)      *)
(*   float64         [sign, exp, hi, mid, lo]     (IEEE 754 binary64, the  *)
(*                   52-bit mantissa as limbs of 20, 16 and 16 bits)       *)
(*   string          the sequence of its bytes                             *)
(*   slice           [nil, items]                                          *)
(*   array           the sequence of its elements                          *)
(*   map             [nil, m] with m a set of <<key, value>> pairs         *)
(*   struct          the sequence of its field values, by field index      *)
(*   pointer         [nil |-> TRUE], [nil |-> FALSE, elem |-> v] (an       *)
(*                   object nothing else points to) or                     *)
(*                   [nil |-> FALSE, ref |-> a] (the object at address a   *)
(*                   of Heap, which may be shared or lie on a cycle)       *)
(* Types are records [kind |-> ...] after reflect.Kind.                    *)
(***************************************************************************)
EXTENDS Integers, Sequences, FiniteSets, TLC

(***************************************************************************)
(* Format constants (const.go).                                            *)
(***************************************************************************)
NullCollection == -1

NullObject == 255

MaxDepth == 1000

MaxMemberCount == 249

InitialCapacity == 128

DefaultCapacity == 64

(***************************************************************************)
(* Bounds of the model.                                                    *)
(***************************************************************************)
\* longest slice, map or string drawn as an input
MaxLen == 2

\* longest linked list drawn as an input
MaxChain == 2

\* the steps the walker is followed for
MaxSteps == 4096

NoError == ""

(***************************************************************************)
(* Fixed-width integers.                                                   *)
(***************************************************************************)
RECURSIVE BigEndian(_, _)
\* the width bytes of v's bit pattern, most significant first
BigEndian(v, width) ==
    IF width = 0 THEN <<>>
    ELSE BigEndian(v \div 256, width - 1) \o <<v % 256>>

RECURSIVE LittleEndian(_, _)
\* binary.LittleEndian.PutUintN(buf, uintN(v)): the width bytes of v's
\* two's-complement bit pattern, least significant first.  Shifting by
\* floor division keeps every intermediate value inside the range of v.
LittleEndian(v, width) ==
    IF width = 0 THEN <<>>
    ELSE <<v % 256>> \o LittleEndian(v \div 256, width - 1)

RECURSIVE FromLittleEndian(_)
\* intN(binary.LittleEndian.UintN(b)): the signed value of the bytes b.
FromLittleEndian(b) ==
    IF Len(b) = 1 THEN (IF b[1] >= 128 THEN b[1] - 256 ELSE b[1])
    ELSE b[1] + 256 * FromLittleEndian(Tail(b))

\* byte(v.Int()) at struct.go:176
ToByte(v) == v % 256

\* v.SetInt(int64(val)) on an int8: reflect stores int8(x)
ToInt8(b) == IF b >= 128 THEN b - 256 ELSE b

\* ^int32(n)
Complement(n) == (-1) - n

(***************************************************************************)
(* Floating point: bit patterns.                                           *)
(***************************************************************************)
\* math.Float32bits followed by PutUint32
Float32Bytes(f) ==
    << f.mant % 256,
       (f.mant \div 256) % 256,
       (f.exp % 2) * 128 + (f.mant \div 65536),
       f.sign * 128 + (f.exp \div 2) >>

\* Uint32 followed by math.Float32frombits
Float32FromBytes(b) ==
    [ sign |-> b[4] \div 128,
      exp  |-> (b[4] % 128) * 2 + (b[3] \div 128),
      mant |-> (b[3] % 128) * 65536 + b[2] * 256 + b[1] ]

\* math.Float64bits followed by PutUint64
Float64Bytes(f) ==
    << f.lo % 256, f.lo \div 256,
       f.mid % 256, f.mid \div 256,
       f.hi % 256, (f.hi \div 256) % 256,
       (f.exp % 16) * 16 + (f.hi \div 65536),
       f.sign * 128 + (f.exp \div 16) >>

\* Uint64 followed by math.Float64frombits
Float64FromBytes(b) ==
    [ sign |-> b[8] \div 128,
      exp  |-> (b[8] % 128) * 16 + (b[7] \div 16),
      hi   |-> (b[7] % 16) * 65536 + b[6] * 256 + b[5],
      mid  |-> b[4] * 256 + b[3],
      lo   |-> b[2] * 256 + b[1] ]

IsNaN32(f) == f.exp = 255 /\ f.mant # 0

IsNaN64(f) == f.exp = 2047 /\ (f.hi # 0 \/ f.mid # 0 \/ f.lo # 0)

\* float32(v.Float()) and v.SetFloat(float64(val)): a float32 taken through
\* float64 and back keeps its value; a signalling NaN comes back quiet.
Float32ViaFloat64(f) ==
    IF IsNaN32(f) /\ f.mant < 4194304
    THEN [f EXCEPT !.mant = @ + 4194304]
    ELSE f

(***************************************************************************)
(* Writer (the byte sink).                                                 *)
(***************************************************************************)
Zeros(n) == [i \in 1..n |-> 0]

NewWriter(initialCapacity) ==
    [ buffer |-> Zeros(IF initialCapacity <= 0 THEN DefaultCapacity
                       ELSE initialCapacity),
      pos    |-> 0,
      depth  |-> 0 ]

\* a CheckDepth that counts the depth and never refuses
CheckDepthUnchecked(w) ==
    [w |-> [w EXCEPT !.depth = @ + 1], err |-> NoError]

\* returns [w, err]
CheckDepth(w) ==
    LET w1 == [w EXCEPT !.depth = @ + 1]
    IN  [ w   |-> w1,
          err |-> IF w1.depth > MaxDepth THEN "serialization depth exceeded"
                  ELSE NoError ]

\* an EndCheckDepth that leaves the counter as it is
EndCheckDepthForgotten(w) == w

EndCheckDepth(w) == [w EXCEPT !.depth = @ - 1]

GetBytes(w) == SubSeq(w.buffer, 1, w.pos)

\* an ensureCapacity that does not copy the old buffer into the new one
ensureCapacityNoCopy(w, additionalBytes) ==
    LET requiredCapacity == w.pos + additionalBytes
        doubled == Len(w.buffer) * 2
        newCapacity == IF doubled < requiredCapacity THEN requiredCapacity
                       ELSE doubled
    IN  IF requiredCapacity > Len(w.buffer)
        THEN [w EXCEPT !.buffer = Zeros(newCapacity)]
        ELSE w

ensureCapacity(w, additionalBytes) ==
    LET requiredCapacity == w.pos + additionalBytes
        doubled == Len(w.buffer) * 2
        newCapacity == IF doubled < requiredCapacity THEN requiredCapacity
                       ELSE doubled
    IN  IF requiredCapacity > Len(w.buffer)
        THEN [w EXCEPT !.buffer = @ \o Zeros(newCapacity - Len(@))]
        ELSE w

\* copy(w.buffer[w.pos:], bs); w.pos += len(bs)
Put(w, bs) ==
    [w EXCEPT !.buffer = SubSeq(@, 1, w.pos) \o bs
                            \o SubSeq(@, w.pos + Len(bs) + 1, Len(@)),
              !.pos = @ + Len(bs)]

WriteByte(w, v) == Put(ensureCapacity(w, 1), <<v>>)

WriteInt16(w, v) == Put(ensureCapacity(w, 2), LittleEndian(v, 2))

WriteInt32(w, v) == Put(ensureCapacity(w, 4), LittleEndian(v, 4))

WriteInt64(w, v) == Put(ensureCapacity(w, 8), LittleEndian(v, 8))

WriteFloat32(w, v) == Put(ensureCapacity(w, 4), Float32Bytes(v))

WriteFloat64(w, v) == Put(ensureCapacity(w, 8), Float64Bytes(v))

WriteBool(w, v) == IF v THEN WriteByte(w, 1) ELSE WriteByte(w, 0)

\* v is [nil, items]
WriteBytes(w, v) ==
    IF v.nil THEN WriteInt32(w, NullCollection)
    ELSE LET w1 == WriteInt32(w, Len(v.items))
         IN  IF Len(v.items) > 0
             THEN Put(ensureCapacity(w1, Len(v.items)), v.items)
             ELSE w1

\* a WriteString whose first header is the byte count itself
WriteStringCounted(w, v) ==
    IF v = <<>> THEN WriteInt32(w, 0)
    ELSE Put(WriteInt32(WriteInt32(ensureCapacity(w, Len(v) + 8), Len(v)),
                        Len(v)),
             v)

WriteString(w, v) ==
    IF v = <<>> THEN WriteInt32(w, 0)
    ELSE LET utf8ByteCount == Len(v)
             w1 == ensureCapacity(w, utf8ByteCount + 8)
             w2 == WriteInt32(w1, Complement(utf8ByteCount))
             w3 == WriteInt32(w2, Len(v))
         IN  Put(w3, v)

WriteCollectionHeader(w, length) == WriteInt32(w, length)

WriteNullCollectionHeader(w) == WriteInt32(w, NullCollection)

\* a WriteObjectHeader without the limit of 249 members
WriteObjectHeaderUnchecked(w, memberCount) ==
    IF memberCount < 0 THEN [w |-> WriteByte(w, NullObject), err |-> NoError]
    ELSE [w |-> WriteByte(w, ToByte(memberCount)), err |-> NoError]

\* returns [w, err]
WriteObjectHeader(w, memberCount) ==
    IF memberCount < 0 THEN [w |-> WriteByte(w, NullObject), err |-> NoError]
    ELSE IF memberCount <= MaxMemberCount
    THEN [w |-> WriteByte(w, ToByte(memberCount)), err |-> NoError]
    ELSE [w |-> w, err |-> "member count too large"]

(***************************************************************************)
(* Reader (the byte source).  Every read returns [r, v, err].              *)
(***************************************************************************)
NewReader(data) == [buffer |-> data, pos |-> 0]

Failed(r, zero, msg) == [r |-> r, v |-> zero, err |-> msg]

Done(r, v) == [r |-> r, v |-> v, err |-> NoError]

Advance(r, n) == [r EXCEPT !.pos = @ + n]

\* r.buffer[r.pos : r.pos+n]
Window(r, n) == SubSeq(r.buffer, r.pos + 1, r.pos + n)

ReadByte(r) ==
    IF r.pos >= Len(r.buffer)
    THEN Failed(r, 0, "cannot read byte: end of buffer")
    ELSE Done(Advance(r, 1), r.buffer[r.pos + 1])

Peek(r, n) ==
    IF r.pos + n > Len(r.buffer)
    THEN Failed(r, <<>>, "cannot peek: end of buffer")
    ELSE Done(r, Window(r, n))

\* a ReadInt16 that leaves out the conversion to int16
ReadInt16Unsigned(r) ==
    IF r.pos + 2 > Len(r.buffer)
    THEN Failed(r, 0, "cannot read int16: end of buffer")
    ELSE Done(Advance(r, 2), Window(r, 2)[1] + 256 * Window(r, 2)[2])

ReadInt16(r) ==
    IF r.pos + 2 > Len(r.buffer)
    THEN Failed(r, 0, "cannot read int16: end of buffer")
    ELSE Done(Advance(r, 2), FromLittleEndian(Window(r, 2)))

ReadInt32(r) ==
    IF r.pos + 4 > Len(r.buffer)
    THEN Failed(r, 0, "cannot read int32: end of buffer")
    ELSE Done(Advance(r, 4), FromLittleEndian(Window(r, 4)))

\* int64(binary.LittleEndian.Uint64(b)).  A value outside the 32-bit range
\* is kept as its two halves, each as an int32.
Int64FromBytes(b) ==
    LET lo == FromLittleEndian(SubSeq(b, 1, 4))
        hi == FromLittleEndian(SubSeq(b, 5, 8))
    IN  IF (lo >= 0 /\ hi = 0) \/ (lo < 0 /\ hi = -1) THEN lo
        ELSE [hi |-> hi, lo |-> lo]

ReadInt64(r) ==
    IF r.pos + 8 > Len(r.buffer)
    THEN Failed(r, 0, "cannot read int64: end of buffer")
    ELSE Done(Advance(r, 8), Int64FromBytes(Window(r, 8)))

ZeroFloat32 == [sign |-> 0, exp |-> 0, mant |-> 0]

ZeroFloat64 == [sign |-> 0, exp |-> 0, hi |-> 0, mid |-> 0, lo |-> 0]

ReadFloat32(r) ==
    IF r.pos + 4 > Len(r.buffer)
    THEN Failed(r, ZeroFloat32, "cannot read float32: end of buffer")
    ELSE Done(Advance(r, 4), Float32FromBytes(Window(r, 4)))

ReadFloat64(r) ==
    IF r.pos + 8 > Len(r.buffer)
    THEN Failed(r, ZeroFloat64, "cannot read float64: end of buffer")
    ELSE Done(Advance(r, 8), Float64FromBytes(Window(r, 8)))

ReadBool(r) ==
    LET b == ReadByte(r)
    IN  IF b.err # NoError THEN Failed(b.r, FALSE, b.err)
        ELSE Done(b.r, b.v # 0)

NilSlice == [nil |-> TRUE, items |-> <<>>]

ReadBytes(r) ==
    LET h == ReadInt32(r)
        length == h.v
    IN  IF h.err # NoError THEN Failed(h.r, NilSlice, h.err)
        ELSE IF length = NullCollection THEN Done(h.r, NilSlice)
        ELSE IF length < 0
        THEN Failed(h.r, NilSlice, "invalid byte array length")
        ELSE IF length > Len(h.r.buffer) - h.r.pos
        THEN Failed(h.r, NilSlice, "read error: not enough bytes")
        ELSE Done(Advance(h.r, length),
                  [nil |-> FALSE, items |-> Window(h.r, length)])

ReadString(r) ==
    LET h == ReadInt32(r)
        byteCount == h.v
        actualByteCount == Complement(byteCount)
        n == ReadInt32(h.r)
    IN  IF h.err # NoError THEN Failed(h.r, <<>>, h.err)
        ELSE IF byteCount >= 0
        THEN \* the null test inside this branch can never succeed
             Done(h.r, <<>>)
        ELSE IF n.err # NoError THEN Failed(n.r, <<>>, n.err)
        \* r.pos+int(actualByteCount) > len(r.buffer), in 64-bit int
        ELSE IF actualByteCount > Len(n.r.buffer) - n.r.pos
        THEN Failed(n.r, <<>>, "read error: not enough bytes for string")
        ELSE Done(Advance(n.r, actualByteCount), Window(n.r, actualByteCount))

\* v is [length, isNull]
ReadCollectionHeader(r) ==
    LET h == ReadInt32(r)
    IN  IF h.err # NoError
        THEN Failed(h.r, [length |-> 0, isNull |-> FALSE], h.err)
        ELSE IF h.v = NullCollection
        THEN Done(h.r, [length |-> 0, isNull |-> TRUE])
        ELSE Done(h.r, [length |-> h.v, isNull |-> FALSE])

\* v is [count, isNull]
ReadObjectHeader(r) ==
    LET h == ReadByte(r)
    IN  IF h.err # NoError
        THEN Failed(h.r, [count |-> 0, isNull |-> FALSE], h.err)
        ELSE IF h.v = NullObject
        THEN Done(h.r, [count |-> 0, isNull |-> TRUE])
        ELSE Done(h.r, [count |-> h.v, isNull |-> FALSE])

(***************************************************************************)
(* Types.                                                                  *)
(***************************************************************************)
TBool == [kind |-> "Bool"]

TInt8 == [kind |-> "Int8"]

TInt16 == [kind |-> "Int16"]

TInt32 == [kind |-> "Int32"]

TInt64 == [kind |-> "Int64"]

TInt == [kind |-> "Int"]

TUint8 == [kind |-> "Uint8"]

TFloat32 == [kind |-> "Float32"]

TFloat64 == [kind |-> "Float64"]

TString == [kind |-> "String"]

SliceOf(e) == [kind |-> "Slice", elem |-> e]

ArrayOf(n, e) == [kind |-> "Array", len |-> n, elem |-> e]

MapOf(k, e) == [kind |-> "Map", key |-> k, elem |-> e]

PtrTo(e) == [kind |-> "Ptr", elem |-> e]

StructOf(name) == [kind |-> "Struct", name |-> name]

\* reflect.StructField: PkgPath is empty exactly for an exported field; tag
\* is the value of the memorypack key, as a sequence of characters.
Field(name, exported, tag, type) ==
    [name |-> name, exported |-> exported, tag |-> tag, type |-> type]

NoTag == <<>>

\* a struct type of n exported bool fields
WideFields(n) == [i \in 1..n |-> Field("F", TRUE, NoTag, TBool)]

\* fields sort.Slice sorts by insertion: a slice of at most this many
InsertionSorted == 12

\* The struct types of the test suite, by name; Tied and TiedWide are
\* struct types with two fields of the same order.
StructFields(name) ==
    CASE name = "SimpleStruct" ->
           << Field("A", TRUE, NoTag, TInt),
              Field("B", TRUE, NoTag, TString),
              Field("C", TRUE, NoTag, TBool) >>
      [] name = "NestedStruct" ->
           << Field("Simple", TRUE, NoTag, StructOf("SimpleStruct")),
              Field("D", TRUE, NoTag, TFloat64) >>
      [] name = "StructWithCollections" ->
           << Field("IntSlice", TRUE, NoTag, SliceOf(TInt)),
              Field("StringMap", TRUE, NoTag, MapOf(TString, TString)),
              Field("FloatArray", TRUE, NoTag, ArrayOf(3, TFloat32)) >>
      [] name = "StructWithPrivateFields" ->
           << Field("Public", TRUE, NoTag, TString),
              Field("private", FALSE, NoTag, TInt) >>
      [] name = "Person" ->
           << Field("Name", TRUE, NoTag, TString),
              Field("Age", TRUE, NoTag, TInt) >>
      [] name = "LinkedNode" ->
           << Field("Value", TRUE, NoTag, TInt),
              Field("Next", TRUE, NoTag, PtrTo(StructOf("LinkedNode"))) >>
      [] name = "CircularStruct" ->
           << Field("Name", TRUE, NoTag, TString),
              Field("Self", TRUE, NoTag, PtrTo(StructOf("CircularStruct"))),
              Field("Other", TRUE, NoTag, PtrTo(StructOf("CircularStruct"))) >>
      [] name = "CustomFormat" ->
           << Field("IntValue", TRUE, NoTag, TInt),
              Field("StrValue", TRUE, NoTag, TString) >>
      [] name = "CustomHolder" ->
           << Field("Item", TRUE, NoTag, PtrTo(StructOf("CustomFormat"))) >>
      [] name = "TaggedStruct" ->
           << Field("First", TRUE, <<"2">>, TString),
              Field("Second", TRUE, <<"1">>, TInt),
              Field("Third", TRUE, <<"0">>, TBool) >>
      [] name = "SkipStruct" ->
           << Field("Include", TRUE, NoTag, TString),
              Field("Skip", TRUE, <<"-">>, TString),
              Field("Another", TRUE, NoTag, TString) >>
      [] name = "MyStruct" ->
           << Field("Value", TRUE, NoTag, TInt) >>
      [] name = "DifferentStruct" ->
           << Field("Value", TRUE, NoTag, TString),
              Field("Other", TRUE, NoTag, TInt) >>
      [] name = "TestStructA" ->
           << Field("PublicField", TRUE, NoTag, PtrTo(TString)) >>
      [] name = "EmptyStruct" -> <<>>
      [] name = "Wide" -> WideFields(MaxMemberCount)
      [] name = "TooWide" -> WideFields(MaxMemberCount + 1)
      [] name = "Tied" ->
           << Field("First", TRUE, <<"1">>, TString),
              Field("Second", TRUE, NoTag, TInt),
              Field("Third", TRUE, <<"0">>, TBool),
              Field("Fourth", TRUE, <<"-">>, TBool),
              Field("Fifth", TRUE, <<"0">>, TBool) >>
      [] name = "TiedWide" ->
           [i \in 1..(InsertionSorted + 1) |->
               Field("F", TRUE, IF i > InsertionSorted THEN <<"0">> ELSE NoTag,
                     TBool)]

\* The types with a Serialize/Deserialize method pair.  The methods have
\* pointer receivers, so it is *CustomFormat that satisfies Formatter.
ImplementsFormatter(t) ==
    /\ t.kind = "Ptr"
    /\ t.elem.kind = "Struct"
    /\ t.elem.name = "CustomFormat"

(***************************************************************************)
(* Field schema resolver.                                                  *)
(***************************************************************************)
Digits == {"0", "1", "2", "3", "4", "5", "6", "7", "8", "9"}

DigitValue(c) ==
    CASE c = "0" -> 0 [] c = "1" -> 1 [] c = "2" -> 2 [] c = "3" -> 3
      [] c = "4" -> 4 [] c = "5" -> 5 [] c = "6" -> 6 [] c = "7" -> 7
      [] c = "8" -> 8 [] c = "9" -> 9

RECURSIVE DecimalValue(_, _)
DecimalValue(s, acc) ==
    IF s = <<>> THEN acc
    ELSE DecimalValue(Tail(s), acc * 10 + DigitValue(Head(s)))

\* strconv.Atoi: an optional sign and at least one decimal digit.
\* Returns [ok, v].
Atoi(s) ==
    LET signed == s # <<>> /\ Head(s) \in {"+", "-"}
        digits == IF signed THEN Tail(s) ELSE s
    IN  IF digits # <<>> /\ \A i \in 1..Len(digits) : digits[i] \in Digits
        THEN [ok |-> TRUE,
              v  |-> IF signed /\ Head(s) = "-"
                     THEN -DecimalValue(digits, 0)
                     ELSE DecimalValue(digits, 0)]
        ELSE [ok |-> FALSE, v |-> 0]

\* strings.Split(tag, ",")[0]
FirstPart(tag) ==
    LET commas == {i \in 1..Len(tag) : tag[i] = ","}
    IN  IF commas = {} THEN tag
        ELSE SubSeq(tag, 1, (CHOOSE i \in commas : \A j \in commas : i <= j) - 1)

\* a field order that is the declaration index, whatever the tag
FieldOrderDeclared(field, i) == i

\* the order of field i (counted from 0) of a struct type
FieldOrder(field, i) ==
    LET orderStr == FirstPart(field.tag)
        parsed == Atoi(orderStr)
    IN  IF field.tag # <<>> /\ field.tag # <<"-">> /\ orderStr # <<>> /\ parsed.ok
        THEN parsed.v
        ELSE i

\* sort.Slice(fields, order <) where it has one outcome: the fields in
\* ascending order; fields of equal order keep their relative position, as
\* the insertion sort that sort.Slice runs on short slices leaves them.
\* (No struct type of the test suite has two fields of the same order.)
SortByOrder(fields) ==
    LET n == Len(fields)
        \* (<<>> \o f is f; it makes TLC tabulate f once)
        rank == <<>> \o [i \in 1..n |->
                    Cardinality({j \in 1..n :
                        \/ fields[j].order < fields[i].order
                        \/ fields[j].order = fields[i].order /\ j < i}) + 1]
    IN  <<>> \o [p \in 1..n |-> fields[CHOOSE i \in 1..n : rank[i] = p]]

\* a createFormatterData that skips no field
createFormatterDataAll(t) ==
    LET infos(decl) == [i \in 1..Len(decl) |->
                           [ index |-> i - 1,
                             kind  |-> decl[i].type.kind,
                             name  |-> decl[i].name,
                             order |-> FieldOrder(decl[i], i - 1) ]]
    IN  [fields |-> SortByOrder(infos(StructFields(t.name)))]

\* fd.fields when the loop of createFormatterData is done, before the sort
appended(t) ==
    LET infos(decl) == [i \in 1..Len(decl) |->
                           [ index    |-> i - 1,
                             kind     |-> decl[i].type.kind,
                             name     |-> decl[i].name,
                             order    |-> FieldOrder(decl[i], i - 1),
                             exported |-> decl[i].exported,
                             tag      |-> decl[i].tag ]]
        \* the fields the loop does not skip
        kept(info) == info.exported /\ info.tag # <<"-">>
        fieldInfo(info) == [ index |-> info.index, kind |-> info.kind,
                             name  |-> info.name,  order |-> info.order ]
        collect(all) == [i \in 1..Len(all) |-> fieldInfo(all[i])]
    IN  collect(SelectSeq(infos(StructFields(t.name)), kept))

\* returns formatterData, the sequence of fieldInfo
createFormatterData(t) == [fields |-> SortByOrder(appended(t))]

RECURSIVE Ascending(_)
\* the arrangements of fields in ascending order
Ascending(fields) ==
    LET n == Len(fields)
        last == fields[n]
        fits(s, p) ==
            /\ p = 0 \/ s[p].order <= last.order
            /\ p = Len(s) \/ last.order <= s[p + 1].order
        insert(s, p) == SubSeq(s, 1, p) \o <<last>> \o SubSeq(s, p + 1, Len(s))
        places(s) == {insert(s, p) : p \in {q \in 0..Len(s) : fits(s, q)}}
    IN  IF n = 0 THEN {<<>>}
        ELSE UNION {places(s) : s \in Ascending(SubSeq(fields, 1, n - 1))}

\* What sort.Slice(fields, order <) can leave.  It is not a stable sort:
\* of a slice that is not sorted by insertion, fields of equal order come
\* out in an order that the sort package does not promise.
SortOutcomes(fields) ==
    IF Len(fields) <= InsertionSorted THEN {SortByOrder(fields)}
    ELSE Ascending(fields)

\* a sort.Slice that leaves the slice as it is
Unsorted(sorter, fields) == fields

\* sort.Slice(fields, order <) of a build: sorter is the function that
\* its sort algorithm computes, from slices to what it leaves of them
SortSlice(sorter, fields) == sorter[fields]

\* formatterCache is a function from cached struct type names to
\* formatterData.  Returns [fd, cache].
getFormatterData(cache, t) ==
    IF t.name \in DOMAIN cache
    THEN [fd |-> cache[t.name], cache |-> cache]
    ELSE LET store(fd) == [fd |-> fd, cache |-> (t.name :> fd) @@ cache]
         IN  store(createFormatterData(t))

(***************************************************************************)
(* Values.                                                                 *)
(***************************************************************************)
NilPtr == [nil |-> TRUE]

PtrToValue(v) == [nil |-> FALSE, elem |-> v]

PtrToObject(a) == [nil |-> FALSE, ref |-> a]

NilMap == [nil |-> TRUE, m |-> {}]

\* the longest chain of LinkedNode values that Serialize can still write,
\* plus one
DeepNodes == MaxDepth \div 2 + 1

CircularA == MaxDepth + 1

CircularB == MaxDepth + 2

\* The objects that inputs share or link into cycles: a chain of
\* DeepNodes LinkedNode values at addresses 1..DeepNodes, and the two
\* CircularStruct values of TestPointers/CircularReference.
Heap ==
    [a \in (1..DeepNodes) \cup {CircularA, CircularB} |->
        IF a = CircularA THEN <<<<65>>, NilPtr, PtrToObject(CircularB)>>
        ELSE IF a = CircularB THEN <<<<66>>, NilPtr, PtrToObject(CircularA)>>
        ELSE IF a = DeepNodes THEN <<a, NilPtr>>
        ELSE <<a, PtrToObject(a + 1)>>]

\* v.Elem() of a non-nil pointer
Deref(p) == IF "ref" \in DOMAIN p THEN Heap[p.ref] ELSE p.elem

RECURSIVE Zero(_)
\* reflect.Zero(t)
Zero(t) ==
    CASE t.kind = "Bool" -> FALSE
      [] t.kind \in {"Int8", "Int16", "Int32", "Int64", "Int", "Uint8"} -> 0
      [] t.kind = "Float32" -> ZeroFloat32
      [] t.kind = "Float64" -> ZeroFloat64
      [] t.kind = "String" -> <<>>
      [] t.kind = "Slice" -> NilSlice
      [] t.kind = "Array" -> [i \in 1..t.len |-> Zero(t.elem)]
      [] t.kind = "Map" -> NilMap
      [] t.kind = "Ptr" -> NilPtr
      [] t.kind = "Struct" ->
           LET decl == StructFields(t.name)
           IN  [i \in 1..Len(decl) |-> Zero(decl[i].type)]

(***************************************************************************)
(* The Formatter of the test suite: CustomFormat.                          *)
(***************************************************************************)
\* int32(c.IntValue)
ToInt32(v) == FromLittleEndian(LittleEndian(v, 4))

\* (*CustomFormat).Serialize; c is <<IntValue, StrValue>>.  Returns [w, err].
CustomSerialize(w, c) ==
    [w |-> WriteString(WriteInt32(w, ToInt32(c[1])), c[2]), err |-> NoError]

\* (*CustomFormat).Deserialize.  Returns [r, v, err].
CustomDeserialize(r, c) ==
    LET second(val, str) ==
            IF str.err # NoError THEN Failed(str.r, <<val.v, c[2]>>, str.err)
            ELSE Done(str.r, <<val.v, str.v>>)
        first(val) ==
            IF val.err # NoError THEN Failed(val.r, c, val.err)
            ELSE second(val, ReadString(val.r))
    IN  first(ReadInt32(r))

(***************************************************************************)
(* The write side of the walker.  A call of writeValue that has to recurse *)
(* leaves its pending calls on a stack: [op |-> "value", t, v] is a call   *)
(* of writeValue still to be made, [op |-> "struct", t, v] a call of       *)
(* SerializeStruct, and [op |-> "ret"] the deferred EndCheckDepth of a     *)
(* call that is waiting for its callees.  SerializeStruct and writeValue   *)
(* return [w, cache, err, push]: push are the tasks the call leaves.       *)
(***************************************************************************)
ValueTask(t, v) == [op |-> "value", t |-> t, v |-> v]

StructTask(t, v) == [op |-> "struct", t |-> t, v |-> v]

RetTask == [op |-> "ret"]

Step(w, cache, err, push) ==
    [w |-> w, cache |-> cache, err |-> err, push |-> push]

SerializeStruct(w, cache, t0, v0) ==
    LET t == IF t0.kind = "Ptr" THEN t0.elem ELSE t0
        v == IF t0.kind = "Ptr" THEN Deref(v0) ELSE v0
        \* the loop over formatterData.fields
        loop(fields, decl) ==
            [i \in 1..Len(fields) |->
                ValueTask(decl[fields[i].index + 1].type,
                          v[fields[i].index + 1])]
        headed(got, h) ==
            IF h.err # NoError THEN Step(h.w, got.cache, h.err, <<>>)
            ELSE Step(h.w, got.cache, NoError,
                      loop(got.fd.fields, StructFields(t.name)))
        resolved(got) ==
            headed(got, WriteObjectHeader(w, Len(got.fd.fields)))
    IN  IF t.kind # "Struct"
        THEN Step(w, cache, "SerializeStruct only accepts struct values", <<>>)
        ELSE resolved(getFormatterData(cache, t))

\* the orders in which MapRange can yield the entries of m
Orderings(m) ==
    {s \in [1..Cardinality(m) -> m] : \A i, j \in 1..Cardinality(m) :
                                          s[i] = s[j] => i = j}

\* what decides the order of one run of MapRange: a permutation of
\* 1..MaxLen, for maps of at most MaxLen entries
MapOrders ==
    {p \in [1..MaxLen -> 1..MaxLen] : \A i, j \in 1..MaxLen : p[i] = p[j] => i = j}

\* the entries of a map with integer keys, by ascending key
ByKey(m) ==
    LET keys == {e[1] : e \in m}
        lo == CHOOSE k \in keys : \A j \in keys : k <= j
        hi == CHOOSE k \in keys : \A j \in keys : k >= j
        present(k) == k \in keys
        at(ks) == <<>> \o [i \in 1..Len(ks) |-> CHOOSE e \in m : e[1] = ks[i]]
    IN  at(SelectSeq([i \in 1..(hi - lo + 1) |-> lo + i - 1], present))

\* v.MapRange(): the entries of m in the order that order decides.  Of a
\* map of more than MaxLen entries one order is followed, that of its keys.
MapRange(m, order) ==
    LET base == CHOOSE s \in Orderings(m) : TRUE
        small(i) == i <= Cardinality(m)
        at(picked) == [j \in 1..Len(picked) |-> base[picked[j]]]
    IN  IF Cardinality(m) > MaxLen THEN ByKey(m)
        ELSE at(SelectSeq(order, small))

\* order decides the order in which MapRange yields a map's entries
writeValue(w, cache, t, v, order) ==
    LET cd == CheckDepth(w)
        w1 == cd.w
        \* a call that returns at once: its deferred EndCheckDepth has run
        leaf(w2) == Step(EndCheckDepth(w2), cache, NoError, <<>>)
        \* a call that waits for the calls it makes
        calls(w2, tasks) == Step(w2, cache, NoError, tasks \o <<RetTask>>)
        elems(n) == [i \in 1..n |-> ValueTask(t.elem, v.items[i])]
        \* the key and then the value of each entry
        pairs(entries) ==
            [i \in 1..(2 * Len(entries)) |->
                IF i % 2 = 1
                THEN ValueTask(t.key, entries[(i + 1) \div 2][1])
                ELSE ValueTask(t.elem, entries[i \div 2][2])]
    IN  IF cd.err # NoError THEN Step(w1, cache, cd.err, <<>>)
        ELSE CASE t.kind = "Bool" -> leaf(WriteBool(w1, v))
          [] t.kind = "Int8" -> leaf(WriteByte(w1, ToByte(v)))
          [] t.kind = "Int16" -> leaf(WriteInt16(w1, v))
          [] t.kind = "Int32" -> leaf(WriteInt32(w1, v))
          [] t.kind \in {"Int", "Int64"} -> leaf(WriteInt64(w1, v))
          [] t.kind = "Float32" -> leaf(WriteFloat32(w1, Float32ViaFloat64(v)))
          [] t.kind = "Float64" -> leaf(WriteFloat64(w1, v))
          [] t.kind = "String" -> leaf(WriteString(w1, v))
          [] t.kind = "Slice" ->
               IF v.nil THEN leaf(WriteNullCollectionHeader(w1))
               ELSE IF t.elem.kind = "Uint8" THEN leaf(WriteBytes(w1, v))
               ELSE calls(WriteCollectionHeader(w1, Len(v.items)),
                          elems(Len(v.items)))
          [] t.kind = "Array" ->
               calls(WriteCollectionHeader(w1, Len(v)),
                     [i \in 1..Len(v) |-> ValueTask(t.elem, v[i])])
          [] t.kind = "Map" ->
               IF v.nil THEN leaf(WriteNullCollectionHeader(w1))
               ELSE calls(WriteCollectionHeader(w1, Cardinality(v.m)),
                          pairs(MapRange(v.m, order)))
          [] t.kind = "Struct" ->
               LET struct(s) ==
                       IF s.err # NoError
                       THEN Step(EndCheckDepth(s.w), s.cache, s.err, <<>>)
                       ELSE Step(s.w, s.cache, NoError, s.push \o <<RetTask>>)
               IN  struct(SerializeStruct(w1, cache, t, v))
          [] t.kind = "Ptr" ->
               IF ~v.nil THEN calls(w1, <<ValueTask(t.elem, Deref(v))>>)
               ELSE leaf(WriteByte(w1, NullObject))
          [] OTHER -> Step(EndCheckDepth(w1), cache, "unsupported type", <<>>)

\* The walker between two calls: m is [w, cache, err, stack].  With no
\* error, the call on top of the stack is made, or a waiting call returns
\* and its deferred EndCheckDepth runs.  An error passes through the
\* innermost waiting call: the calls it had still to make are dropped and
\* its deferred EndCheckDepth runs.
WalkerStep(m, order) ==
    LET called(s) ==
            [w |-> s.w, cache |-> s.cache, err |-> s.err,
             stack |-> s.push \o Tail(m.stack)]
        unwound(rets) ==
            IF rets = {} THEN [m EXCEPT !.stack = <<>>]
            ELSE [m EXCEPT
                    !.w = EndCheckDepth(@),
                    !.stack = SubSeq(@, (CHOOSE i \in rets :
                                            \A j \in rets : i <= j) + 1,
                                     Len(@))]
    IN  IF m.err # NoError
        THEN unwound({i \in 1..Len(m.stack) : m.stack[i].op = "ret"})
        ELSE IF Head(m.stack).op = "ret"
        THEN [m EXCEPT !.w = EndCheckDepth(@), !.stack = Tail(@)]
        ELSE IF Head(m.stack).op = "struct"
        THEN called(SerializeStruct(m.w, m.cache, Head(m.stack).t,
                                    Head(m.stack).v))
        ELSE called(writeValue(m.w, m.cache, Head(m.stack).t, Head(m.stack).v,
                               order))

RECURSIVE Run(_, _, _)
\* the walker run from m until no call is pending, for n steps at most
Run(m, n, order) ==
    IF m.stack = <<>> THEN m
    ELSE IF n <= 1 THEN WalkerStep(m, order)
    ELSE Run(Run(m, n \div 2, order), n - n \div 2, order)

\* Serialize(value) for value of type t.  Returns [bytes, err], with the
\* Writer and the cache it leaves, and whether it returned at all.
Serialize(cache, t, v, order) ==
    LET et == IF t.kind = "Ptr" THEN t.elem ELSE t
        ev == IF t.kind = "Ptr" THEN Deref(v) ELSE v
        walk(w1, push) == [w |-> w1, cache |-> cache, err |-> NoError,
                           stack |-> push]
        return(m, bytes, err) ==
            [bytes |-> bytes, err |-> err, w |-> m.w, cache |-> m.cache,
             returned |-> m.stack = <<>>]
        walked(m) ==
            IF m.err # NoError THEN return(m, <<>>, m.err)
            ELSE return(m, GetBytes(m.w), NoError)
        \* f is what the Formatter branch left: the writer and the error
        after(f) ==
            IF f.err # NoError
            THEN return(walk(f.w, <<>>), <<>>, "failed to serialize value")
            ELSE IF t.kind = "Ptr" /\ v.nil
            THEN walked(walk(WriteByte(f.w, NullObject), <<>>))
            ELSE IF et.kind = "Struct"
            THEN walked(Run(walk(f.w, <<StructTask(et, ev)>>), MaxSteps, order))
            ELSE walked(Run(walk(f.w, <<ValueTask(et, ev)>>), MaxSteps, order))
    IN  after(IF ImplementsFormatter(t)
              THEN CustomSerialize(NewWriter(InitialCapacity), Deref(v))
              ELSE [w |-> NewWriter(InitialCapacity), err |-> NoError])

(***************************************************************************)
(* The read side of the walker.  Every operator returns                    *)
(* [r, cache, v, err, panic]: v is what the target holds afterwards.       *)
(***************************************************************************)
Read(r, cache, v, err, panic) ==
    [r |-> r, cache |-> cache, v |-> v, err |-> err, panic |-> panic]

\* the outcome of a Reader call x stored into a target that held cur
Stored(x, cache, cur) ==
    IF x.err # NoError THEN Read(x.r, cache, cur, x.err, FALSE)
    ELSE Read(x.r, cache, x.v, NoError, FALSE)

\* mapValue.SetMapIndex(key, value)
SetMapIndex(m, key, value) ==
    {e \in m : e[1] # key} \cup {<<key, value>>}

RECURSIVE readValue(_, _, _, _)
RECURSIVE DeserializeStruct(_, _, _, _)
RECURSIVE ReadElements(_, _, _, _, _, _)
RECURSIVE ReadEntries(_, _, _, _, _)
RECURSIVE ReadFields(_, _, _, _, _, _)

\* the loops of the Slice and Array cases: elements i..length of items,
\* each read into what items holds there
ReadElements(r, cache, elem, items, i, length) ==
    LET read(x) ==
            IF x.err # NoError
            THEN Read(x.r, x.cache, [items EXCEPT ![i] = x.v], x.err, x.panic)
            ELSE ReadElements(x.r, x.cache, elem, [items EXCEPT ![i] = x.v],
                              i + 1, length)
    IN  IF i > length THEN Read(r, cache, items, NoError, FALSE)
        ELSE IF i > Len(items)
        THEN Read(r, cache, items, "reflect: array index out of range", TRUE)
        ELSE read(readValue(r, cache, elem, items[i]))

\* the loop of the Map case: n more entries into m
ReadEntries(r, cache, t, m, n) ==
    LET readBoth(key, value) ==
            IF value.err # NoError
            THEN Read(value.r, value.cache, m, value.err, value.panic)
            ELSE ReadEntries(value.r, value.cache, t,
                             SetMapIndex(m, key.v, value.v), n - 1)
        readKey(key) ==
            IF key.err # NoError
            THEN Read(key.r, key.cache, m, key.err, key.panic)
            ELSE readBoth(key, readValue(key.r, key.cache, t.elem, Zero(t.elem)))
    IN  IF n <= 0 THEN Read(r, cache, m, NoError, FALSE)
        ELSE readKey(readValue(r, cache, t.key, Zero(t.key)))

\* the loop of DeserializeStruct over fields[i..]; every field of a schema
\* is exported, and the struct is addressable, so CanSet holds
ReadFields(r, cache, decl, fields, i, cur) ==
    LET read(at, x) ==
            IF x.err # NoError
            THEN Read(x.r, x.cache, [cur EXCEPT ![at] = x.v], x.err, x.panic)
            ELSE ReadFields(x.r, x.cache, decl, fields, i + 1,
                            [cur EXCEPT ![at] = x.v])
        field(at) == read(at, readValue(r, cache, decl[at].type, cur[at]))
    IN  IF i > Len(fields) THEN Read(r, cache, cur, NoError, FALSE)
        ELSE field(fields[i].index + 1)

\* a DeserializeStruct that does not compare the member count
DeserializeStructUncounted(r, cache, t, cur) ==
    LET headed(got, h) ==
            IF h.err # NoError THEN Read(h.r, got.cache, cur, h.err, FALSE)
            ELSE IF h.v.isNull THEN Read(h.r, got.cache, cur, NoError, FALSE)
            ELSE ReadFields(h.r, got.cache, StructFields(t.name),
                            got.fd.fields, 1, cur)
    IN  headed(getFormatterData(cache, t), ReadObjectHeader(r))

\* DeserializeStruct(reader, &cur) for cur of struct type t
DeserializeStruct(r, cache, t, cur) ==
    LET headed(got, h) ==
            IF h.err # NoError THEN Read(h.r, got.cache, cur, h.err, FALSE)
            ELSE IF h.v.isNull THEN Read(h.r, got.cache, cur, NoError, FALSE)
            ELSE IF h.v.count # Len(got.fd.fields)
            THEN Read(h.r, got.cache, cur,
                      "field count mismatch during deserialization", FALSE)
            ELSE ReadFields(h.r, got.cache, StructFields(t.name),
                            got.fd.fields, 1, cur)
    IN  headed(getFormatterData(cache, t), ReadObjectHeader(r))

readValue(r, cache, t, cur) ==
    LET \* the outcome x of a loop, stored by v.Set(made(x.v))
        set(x, made(_)) ==
            IF x.err # NoError THEN Read(x.r, x.cache, cur, x.err, x.panic)
            ELSE Read(x.r, x.cache, made(x.v), NoError, FALSE)
        slice(items) == [nil |-> FALSE, items |-> items]
        map(m) == [nil |-> FALSE, m |-> m]
        readSlice(h) ==
            IF h.err # NoError THEN Read(h.r, cache, cur, h.err, FALSE)
            ELSE IF h.v.isNull THEN Read(h.r, cache, NilSlice, NoError, FALSE)
            ELSE IF h.v.length < 0
            THEN Read(h.r, cache, cur, "reflect.MakeSlice: negative len", TRUE)
            ELSE set(ReadElements(h.r, cache, t.elem,
                                  [i \in 1..h.v.length |-> Zero(t.elem)],
                                  1, h.v.length),
                     slice)
        readArray(h) ==
            IF h.err # NoError THEN Read(h.r, cache, cur, h.err, FALSE)
            ELSE IF h.v.isNull THEN Read(h.r, cache, cur, NoError, FALSE)
            ELSE ReadElements(h.r, cache, t.elem, cur, 1, h.v.length)
        readMap(h) ==
            IF h.err # NoError THEN Read(h.r, cache, cur, h.err, FALSE)
            ELSE IF h.v.isNull THEN Read(h.r, cache, NilMap, NoError, FALSE)
            ELSE set(ReadEntries(h.r, cache, t, {}, h.v.length), map)
        skipNull(skip) == Read(skip.r, cache, NilPtr, skip.err, FALSE)
        pointee(x) == Read(x.r, x.cache, PtrToValue(x.v), x.err, x.panic)
        readPtr(b) ==
            IF b.err # NoError THEN Read(b.r, cache, cur, b.err, FALSE)
            ELSE IF b.v[1] = NullObject THEN skipNull(ReadByte(r))
            ELSE pointee(readValue(r, cache, t.elem,
                                   IF cur.nil THEN Zero(t.elem) ELSE Deref(cur)))
        \* v.SetInt(int64(val)) and v.SetFloat(float64(val)) of a value read
        int8(x) == [x EXCEPT !.v = ToInt8(@)]
        float32(x) == [x EXCEPT !.v = Float32ViaFloat64(@)]
    IN  CASE t.kind = "Bool" -> Stored(ReadBool(r), cache, cur)
          [] t.kind = "Int8" -> Stored(int8(ReadByte(r)), cache, cur)
          [] t.kind = "Int16" -> Stored(ReadInt16(r), cache, cur)
          [] t.kind = "Int32" -> Stored(ReadInt32(r), cache, cur)
          [] t.kind \in {"Int", "Int64"} -> Stored(ReadInt64(r), cache, cur)
          [] t.kind = "Float32" -> Stored(float32(ReadFloat32(r)), cache, cur)
          [] t.kind = "Float64" -> Stored(ReadFloat64(r), cache, cur)
          [] t.kind = "String" -> Stored(ReadString(r), cache, cur)
          [] t.kind = "Slice" ->
               IF t.elem.kind = "Uint8"
               THEN Stored(ReadBytes(r), cache, cur)
               ELSE readSlice(ReadCollectionHeader(r))
          [] t.kind = "Array" -> readArray(ReadCollectionHeader(r))
          [] t.kind = "Map" -> readMap(ReadCollectionHeader(r))
          [] t.kind = "Struct" -> DeserializeStruct(r, cache, t, cur)
          [] t.kind = "Ptr" -> readPtr(Peek(r, 1))
          [] OTHER -> Read(r, cache, cur, "unsupported type", FALSE)

\* a Deserialize that reads into whatever it is given
DeserializeAnyKind(data, cache, t, cur) ==
    IF t.kind = "Struct"
    THEN DeserializeStruct(NewReader(data), cache, t, cur)
    ELSE readValue(NewReader(data), cache, t, cur)

\* Deserialize(data, value): value has type t and holds cur.
Deserialize(data, cache, t, cur) ==
    LET custom(f) ==
            Read(f.r, cache, PtrToValue(f.v),
                 IF f.err # NoError THEN "deserialize failed" ELSE NoError,
                 FALSE)
        generic(x) == Read(x.r, x.cache, PtrToValue(x.v), x.err, x.panic)
    IN  IF ImplementsFormatter(t)
        THEN custom(CustomDeserialize(NewReader(data), Deref(cur)))
        ELSE IF t.kind # "Ptr"
        THEN Read(NewReader(data), cache, cur,
                  "deserialize requires a pointer to a value", FALSE)
        ELSE IF cur.nil
        THEN Read(NewReader(data), cache, cur, "unsupported type", FALSE)
        ELSE IF t.elem.kind = "Struct"
        THEN generic(DeserializeStruct(NewReader(data), cache, t.elem,
                                       Deref(cur)))
        ELSE generic(readValue(NewReader(data), cache, t.elem, Deref(cur)))

(***************************************************************************)
(* The values the model serializes.                                        *)
(***************************************************************************)
MinInt32 == -2147483647 - 1

One32 == [sign |-> 0, exp |-> 127, mant |-> 0]

QuietNaN32 == [sign |-> 0, exp |-> 255, mant |-> 4194304]

SignallingNaN32 == [sign |-> 0, exp |-> 255, mant |-> 1]

One64 == [sign |-> 0, exp |-> 1023, hi |-> 0, mid |-> 0, lo |-> 0]

NaN64 == [sign |-> 0, exp |-> 2047, hi |-> 524288, mid |-> 0, lo |-> 1]

\* all sequences over S of length 0..n
SeqsUpTo(S, n) == UNION {[1..k -> S] : k \in 0..n}

\* the values of a scalar type that the model draws
Scalars(t) ==
    CASE t.kind = "Bool" -> BOOLEAN
      [] t.kind = "Int8" -> {-128, -1, 0, 1, 127}
      [] t.kind = "Int16" -> {-32768, -1, 0, 255, 300, 32767}
      [] t.kind = "Int32" -> {MinInt32, -1, 0, 255, 300, 2147483647}
      [] t.kind \in {"Int", "Int64"} -> {MinInt32, -1, 0, 42, 255, 2147483647}
      [] t.kind = "Float32" ->
           { ZeroFloat32, One32, QuietNaN32, SignallingNaN32,
             [sign |-> 1, exp |-> 128, mant |-> 4788187],
             [sign |-> 0, exp |-> 254, mant |-> 8388607],
             [sign |-> 0, exp |-> 0, mant |-> 1],
             [sign |-> 0, exp |-> 255, mant |-> 0],
             [sign |-> 1, exp |-> 255, mant |-> 0] }
      [] t.kind = "Float64" ->
           { ZeroFloat64, One64, NaN64,
             [sign |-> 1, exp |-> 1024, hi |-> 598523, mid |-> 21572, lo |-> 11544],
             [sign |-> 0, exp |-> 2046, hi |-> 1048575, mid |-> 65535, lo |-> 65535],
             [sign |-> 0, exp |-> 0, hi |-> 0, mid |-> 0, lo |-> 1],
             [sign |-> 0, exp |-> 2047, hi |-> 0, mid |-> 0, lo |-> 0],
             [sign |-> 1, exp |-> 2047, hi |-> 0, mid |-> 0, lo |-> 0] }
      [] t.kind = "String" -> SeqsUpTo({97, 195, 255}, MaxLen)

IsScalar(t) ==
    t.kind \in {"Bool", "Int8", "Int16", "Int32", "Int64", "Int", "Float32",
                "Float64", "String"}

RECURSIVE Product(_)
\* the sequences s with s[i] \in sets[i]
Product(sets) ==
    IF sets = <<>> THEN {<<>>}
    ELSE {<<x>> \o rest : x \in Head(sets), rest \in Product(Tail(sets))}

RECURSIVE Few(_, _)
\* a few values of type t, for use inside a larger value; d bounds the
\* pointers followed
Few(t, d) ==
    CASE t.kind = "Bool" -> {FALSE, TRUE}
      [] t.kind = "Int8" -> {-1, 5}
      [] t.kind = "Int16" -> {-1, 300}
      [] t.kind = "Int32" -> {255, -2}
      [] t.kind \in {"Int", "Int64"} -> {42, -1}
      [] t.kind = "Float32" -> {One32, [sign |-> 1, exp |-> 128, mant |-> 4788187]}
      [] t.kind = "Float64" -> {ZeroFloat64, One64}
      [] t.kind = "String" -> {<<>>, <<97>>}
      [] t.kind = "Slice" ->
           {NilSlice, [nil |-> FALSE, items |-> <<>>]}
             \cup {[nil |-> FALSE, items |-> <<x>>] :
                     x \in IF t.elem.kind = "Uint8" THEN {255} ELSE Few(t.elem, d)}
      [] t.kind = "Array" -> {[i \in 1..t.len |-> x] : x \in Few(t.elem, d)}
      [] t.kind = "Map" ->
           {NilMap, [nil |-> FALSE, m |-> {}]}
             \cup {[nil |-> FALSE, m |-> {<<k, x>>}] :
                     k \in Few(t.key, d), x \in Few(t.elem, d)}
      [] t.kind = "Ptr" ->
           IF d = 0 THEN {NilPtr}
           ELSE {NilPtr} \cup {PtrToValue(x) : x \in Few(t.elem, d - 1)}
      [] t.kind = "Struct" ->
           LET decl == StructFields(t.name)
           IN  IF Len(decl) > 3
               THEN {[i \in 1..Len(decl) |-> b] : b \in BOOLEAN}
               ELSE Product([i \in 1..Len(decl) |-> Few(decl[i].type, d)])

\* the relations over K \X V that are maps of at most n entries
MapsUpTo(K, V, n) ==
    {m \in SUBSET (K \X V) :
        /\ Cardinality(m) <= n
        /\ \A e1, e2 \in m : e1[1] = e2[1] => e1 = e2}

\* the values of type t that the model passes to Serialize
Sample(t) ==
    CASE IsScalar(t) -> Scalars(t)
      [] t.kind = "Slice" ->
           {NilSlice} \cup
           {[nil |-> FALSE, items |-> s] :
               s \in SeqsUpTo(IF t.elem.kind = "Uint8" THEN {0, 255}
                              ELSE Few(t.elem, MaxChain), MaxLen)}
      [] t.kind = "Array" -> [1..t.len -> Few(t.elem, MaxChain)]
      [] t.kind = "Map" ->
           {NilMap} \cup
           {[nil |-> FALSE, m |-> m] :
               m \in MapsUpTo(Few(t.key, MaxChain), Few(t.elem, MaxChain), MaxLen)}
      [] OTHER -> Few(t, MaxChain)

\* types without pointers, excluded fields or a Formatter
PlainTypes ==
    { TBool, TInt8, TInt16, TInt32, TInt64, TInt, TFloat32, TFloat64, TString,
      SliceOf(TUint8), SliceOf(TInt), SliceOf(TString), SliceOf(TInt16),
      ArrayOf(2, TInt8), ArrayOf(3, TString), ArrayOf(0, TInt),
      MapOf(TString, TInt), MapOf(TInt, TString), MapOf(TInt8, TBool),
      SliceOf(SliceOf(TInt)), MapOf(TString, SliceOf(TInt)),
      SliceOf(MapOf(TString, TInt)),
      StructOf("EmptyStruct"), StructOf("SimpleStruct"),
      StructOf("NestedStruct"), StructOf("StructWithCollections"),
      StructOf("TaggedStruct"), StructOf("MyStruct"),
      SliceOf(StructOf("Person")) }

PointerTypes ==
    { PtrTo(TInt), PtrTo(TInt8), PtrTo(TInt32), PtrTo(TString), PtrTo(TBool),
      PtrTo(StructOf("Person")), PtrTo(SliceOf(TInt)),
      StructOf("LinkedNode"), StructOf("TestStructA"),
      SliceOf(PtrTo(TInt8)) }

ExcludingTypes == {StructOf("StructWithPrivateFields"), StructOf("SkipStruct")}

FormatterTypes ==
    {StructOf("CustomFormat"), StructOf("CustomHolder"),
     SliceOf(PtrTo(StructOf("CustomFormat")))}

WideTypes == {StructOf("Wide"), StructOf("TooWide")}

\* Serialize(&x) for x of type t
AddressOf(t, x) == <<PtrTo(t), PtrToValue(x)>>

\* an element count larger than MaxDepth
FlatLen == MaxDepth + 1

\* a slice, an array and a map of FlatLen scalars each, as the slice of
\* BenchmarkSerialization is one of 1000000
FlatArgs ==
    { AddressOf(SliceOf(TBool),
                [nil |-> FALSE, items |-> [i \in 1..FlatLen |-> i % 2 = 0]]),
      AddressOf(ArrayOf(FlatLen, TInt8), [i \in 1..FlatLen |-> i % 100]),
      AddressOf(MapOf(TInt16, TBool),
                [nil |-> FALSE,
                 m |-> {<<i, i % 2 = 0>> : i \in 1..FlatLen}]) }

\* the arguments of Serialize: the address of a sampled value, a nil
\* pointer passed as it is, or a pointer to an object of Heap
Args ==
    UNION {{AddressOf(t, x) : x \in Sample(t)} :
              t \in PlainTypes \cup PointerTypes \cup ExcludingTypes
                      \cup FormatterTypes \cup WideTypes}
    \cup {<<PtrTo(StructOf("Person")), NilPtr>>, <<TInt32, 300>>}
    \cup {<<PtrTo(StructOf("LinkedNode")), PtrToObject(a)>> :
              a \in {1, 2, DeepNodes}}
    \cup {<<PtrTo(StructOf("CircularStruct")), PtrToObject(CircularA)>>}
    \cup FlatArgs

(***************************************************************************)
(* The program: one Serialize call and then one Deserialize call on a      *)
(* prefix of its output, or one Deserialize call on bytes from elsewhere,  *)
(* or one WriteObjectHeader call on a Writer of the caller's own.  A       *)
(* client of the Writer and the Reader themselves is described further     *)
(* down, by CodecSpec.                                                     *)
(***************************************************************************)
VARIABLES
    pc,             \* "idle", "writing", "returned", "read" or "header";
                    \* "writer" or "reader" for a client of the codecs
    arg,            \* <<type, value>> of the call made first
    w,              \* the Writer as the call left it
    out,            \* what the call returned: [bytes, err]
    formatterCache, \* struct type name -> formatterData
    data,           \* the bytes passed to Deserialize
    target,         \* the type of the value Deserialize reads into
    res,            \* what Deserialize left: [v, err, panic, pos]
    reader,         \* the Reader of a client of the codecs
    call,           \* the last Writer or Reader call of that client
    log,            \* the Writer calls of that client, in call order
    resolving,      \* the calls of getFormatterData under way, by goroutine
    sortSlice       \* what sort.Slice computes in this build

vars == <<pc, arg, w, out, formatterCache, data, target, res, reader, call, log,
          resolving, sortSlice>>

\* what the goroutines that resolve schemas hold
schema == <<resolving, sortSlice>>

\* what a client of the codecs holds
codec == <<reader, call, log>>

\* what the calls of Serialize and Deserialize leave
walk == <<arg, out, formatterCache, data, target, res>>

\* longest output that is handed on to Deserialize
MaxData == 128

None == <<>>

Init ==
    /\ pc = "idle"
    /\ arg = None
    /\ w = NewWriter(InitialCapacity)
    /\ out = None
    /\ formatterCache = <<>>
    /\ data = <<>>
    /\ target = None
    /\ res = None
    /\ reader = NewReader(<<>>)
    /\ call = None
    /\ log = <<>>
    /\ resolving = <<>>
    /\ sortSlice = <<>>

\* Serialize(value) is called; pc stays at "writing" if it does not return
SerializeCall(a) ==
    LET returned(s) ==
            /\ w' = s.w
            /\ out' = [bytes |-> s.bytes, err |-> s.err]
            /\ formatterCache' = s.cache
            /\ pc' = IF s.returned THEN "returned" ELSE "writing"
    IN  /\ pc = "idle"
        /\ \E order \in MapOrders :
               returned(Serialize(formatterCache, a[1], a[2], order))
        /\ arg' = a
        /\ UNCHANGED <<data, target, res>>
        /\ UNCHANGED <<codec, schema>>

Decode(d, t, cur) ==
    LET returned(x) ==
            /\ res' = [v |-> x.v, err |-> x.err, panic |-> x.panic,
                       pos |-> x.r.pos]
            /\ formatterCache' = x.cache
    IN  /\ data' = d
        /\ target' = t
        /\ returned(Deserialize(d, formatterCache, t, cur))
        /\ pc' = "read"
        /\ UNCHANGED <<arg, w, out>>
        /\ UNCHANGED <<codec, schema>>

\* Deserialize(out[:n], &result) with result a zero value of the type
\* that was serialized
DeserializeOutput(n) ==
    /\ pc = "returned"
    /\ out.err = NoError
    /\ Len(out.bytes) <= MaxData
    /\ arg[1].kind = "Ptr"
    /\ n \in 0..Len(out.bytes)
    /\ Decode(SubSeq(out.bytes, 1, n), arg[1], PtrToValue(Zero(arg[1].elem)))

\* Deserialize(out[:n], x): x itself is passed where its address is wanted
DeserializeByValue(n) ==
    /\ pc = "returned"
    /\ out.err = NoError
    /\ Len(out.bytes) <= MaxData
    /\ arg[1].kind = "Ptr"
    /\ arg[1].elem.kind # "Ptr"
    /\ ~arg[2].nil
    /\ n \in 0..Len(out.bytes)
    /\ Decode(SubSeq(out.bytes, 1, n), arg[1].elem, Deref(arg[2]))

\* bytes that no Serialize call of the model produced
ForeignData ==
    { <<255, 255, 255, 255>>,
      <<255, 255, 255, 255, 1, 0, 0, 0>>,
      <<0, 0, 0, 0>>,
      <<0, 0, 0, 0, 1, 0, 0, 0>>,
      \* the collection header -2, and the header 4 before four bytes
      <<254, 255, 255, 255>>,
      <<254, 255, 255, 255, 1, 0, 0, 0>>,
      <<4, 0, 0, 0, 1, 1, 1, 1>>,
      \* MyStruct{Value: 42}, DifferentStruct{}, and object headers alone
      <<1, 42, 0, 0, 0, 0, 0, 0, 0>>,
      <<2, 0, 0, 0, 0, 0, 0, 0, 0, 0, 0, 0, 0>>,
      <<0>>, <<3>>, <<250>>, <<255>> }

ForeignTargets ==
    { TString, SliceOf(TUint8), SliceOf(TInt8), MapOf(TInt8, TBool), TInt32,
      SliceOf(TString), ArrayOf(2, TInt8), ArrayOf(0, TInt), PtrTo(TInt8),
      StructOf("MyStruct"), StructOf("DifferentStruct"),
      StructOf("EmptyStruct"), StructOf("StructWithCollections") }

\* Deserialize(d, &result) with result a zero value of type t
DeserializeData(d, t) ==
    /\ pc = "idle"
    /\ Decode(d, PtrTo(t), PtrToValue(Zero(t)))

\* the member counts passed to WriteObjectHeader
MemberCounts == (-1)..(NullObject + 1)

\* writer := NewWriter(64); err := writer.WriteObjectHeader(n)
WriteObjectHeaderCall(n) ==
    LET returned(h) ==
            /\ w' = h.w
            /\ out' = [bytes |-> GetBytes(h.w), err |-> h.err]
    IN  /\ pc = "idle"
        /\ returned(WriteObjectHeader(NewWriter(DefaultCapacity), n))
        /\ arg' = <<TInt, n>>
        /\ pc' = "header"
        /\ UNCHANGED <<formatterCache, data, target, res>>
        /\ UNCHANGED <<codec, schema>>

Next ==
    \/ \E a \in Args : SerializeCall(a)
    \/ \E n \in 0..MaxData : DeserializeOutput(n)
    \/ \E n \in 0..MaxData : DeserializeByValue(n)
    \/ \E d \in ForeignData, t \in ForeignTargets : DeserializeData(d, t)
    \/ \E n \in MemberCounts : WriteObjectHeaderCall(n)

Spec == Init /\ [][Next]_vars

(***************************************************************************)
(* A client of the codecs: it makes a Writer of some capacity and makes up *)
(* to MaxCalls write calls on it; after at most MaxValues of them it may   *)
(* instead make a Reader over the bytes written (or, with nothing written, *)
(* over bytes from elsewhere) and go on with read calls.                   *)
(***************************************************************************)
\* the write calls a client makes on one Writer
MaxCalls == 2

\* the most write calls behind a buffer that is handed to a Reader
MaxValues == 1

\* the capacities passed to NewWriter
Capacities == {-1, 0, 1, 2}

\* the last call: the operation, its argument, the cursor before it, and
\* what it returned
Call(op, a, before, v, err) ==
    [op |-> op, arg |-> a, before |-> before, v |-> v, err |-> err]

CodecInit ==
    /\ pc = "writer"
    /\ w \in {NewWriter(c) : c \in Capacities}
    /\ reader = NewReader(<<>>)
    /\ call = None
    /\ log = <<>>
    /\ arg = None
    /\ out = None
    /\ formatterCache = <<>>
    /\ data = <<>>
    /\ target = None
    /\ res = None
    /\ resolving = <<>>
    /\ sortSlice = <<>>

\* a write call op(a) has left the Writer w1 and returned err
Wrote(op, a, w1, err) ==
    /\ Len(log) < MaxCalls
    /\ w' = w1
    /\ call' = Call(op, a, w.pos, None, err)
    /\ log' = Append(log, [op |-> op, arg |-> a, at |-> w.pos])
    /\ UNCHANGED <<pc, reader>>
    /\ UNCHANGED <<walk, schema>>

WriteByteCall(v) ==
    /\ pc = "writer"
    /\ Wrote("WriteByte", v, WriteByte(w, v), NoError)

WriteBoolCall(v) ==
    /\ pc = "writer"
    /\ Wrote("WriteBool", v, WriteBool(w, v), NoError)

WriteInt16Call(v) ==
    /\ pc = "writer"
    /\ Wrote("WriteInt16", v, WriteInt16(w, v), NoError)

WriteInt32Call(v) ==
    /\ pc = "writer"
    /\ Wrote("WriteInt32", v, WriteInt32(w, v), NoError)

WriteInt64Call(v) ==
    /\ pc = "writer"
    /\ Wrote("WriteInt64", v, WriteInt64(w, v), NoError)

WriteFloat32Call(v) ==
    /\ pc = "writer"
    /\ Wrote("WriteFloat32", v, WriteFloat32(w, v), NoError)

WriteFloat64Call(v) ==
    /\ pc = "writer"
    /\ Wrote("WriteFloat64", v, WriteFloat64(w, v), NoError)

WriteBytesCall(v) ==
    /\ pc = "writer"
    /\ Wrote("WriteBytes", v, WriteBytes(w, v), NoError)

WriteStringCall(v) ==
    /\ pc = "writer"
    /\ Wrote("WriteString", v, WriteString(w, v), NoError)

WriteCollectionHeaderCall(n) ==
    /\ pc = "writer"
    /\ Wrote("WriteCollectionHeader", n, WriteCollectionHeader(w, n), NoError)

WriteNullCollectionHeaderCall ==
    /\ pc = "writer"
    /\ Wrote("WriteNullCollectionHeader", None, WriteNullCollectionHeader(w),
             NoError)

WriteObjectHeaderOn(n) ==
    LET returned(h) == Wrote("WriteObjectHeader", n, h.w, h.err)
    IN  /\ pc = "writer"
        /\ returned(WriteObjectHeader(w, n))

\* reader := NewReader(writer.GetBytes())
NewReaderCall ==
    /\ pc = "writer"
    /\ Len(log) <= MaxValues
    /\ pc' = "reader"
    /\ reader' = NewReader(GetBytes(w))
    /\ call' = Call("NewReader", None, 0, None, NoError)
    /\ UNCHANGED <<w, log>>
    /\ UNCHANGED <<walk, schema>>

\* bytes that no Writer of the client wrote
ForeignBuffers ==
    { <<250>>, <<251, 1>>, <<254>>,
      <<255, 255, 255, 255>>,
      <<255, 255, 255, 255, 1, 0, 0, 0>>,
      <<255, 255, 255, 255, 1, 0, 0, 0, 7>>,
      <<254, 255, 255, 255>>,
      <<254, 255, 255, 255, 1, 0, 0, 0>>,
      <<0, 0, 0, 128, 0, 0, 0, 0>>,
      <<5, 0, 0, 0, 1>>,
      <<253, 255, 255, 255, 2, 0, 0, 0, 97>> }

\* reader := NewReader(d), with nothing written
NewReaderOn(d) ==
    /\ pc = "writer"
    /\ log = <<>>
    /\ pc' = "reader"
    /\ reader' = NewReader(d)
    /\ call' = Call("NewReader", None, 0, None, NoError)
    /\ UNCHANGED <<w, log>>
    /\ UNCHANGED <<walk, schema>>

\* a read call op(n) has returned x
Returned(op, n, x) ==
    /\ reader' = x.r
    /\ call' = Call(op, n, reader.pos, x.v, x.err)
    /\ UNCHANGED <<pc, w, log>>
    /\ UNCHANGED <<walk, schema>>

ReadByteCall ==
    /\ pc = "reader"
    /\ Returned("ReadByte", None, ReadByte(reader))

ReadBoolCall ==
    /\ pc = "reader"
    /\ Returned("ReadBool", None, ReadBool(reader))

ReadInt16Call ==
    /\ pc = "reader"
    /\ Returned("ReadInt16", None, ReadInt16(reader))

ReadInt32Call ==
    /\ pc = "reader"
    /\ Returned("ReadInt32", None, ReadInt32(reader))

ReadInt64Call ==
    /\ pc = "reader"
    /\ Returned("ReadInt64", None, ReadInt64(reader))

ReadFloat32Call ==
    /\ pc = "reader"
    /\ Returned("ReadFloat32", None, ReadFloat32(reader))

ReadFloat64Call ==
    /\ pc = "reader"
    /\ Returned("ReadFloat64", None, ReadFloat64(reader))

ReadBytesCall ==
    /\ pc = "reader"
    /\ Returned("ReadBytes", None, ReadBytes(reader))

ReadStringCall ==
    /\ pc = "reader"
    /\ Returned("ReadString", None, ReadString(reader))

ReadCollectionHeaderCall ==
    /\ pc = "reader"
    /\ Returned("ReadCollectionHeader", None, ReadCollectionHeader(reader))

ReadObjectHeaderCall ==
    /\ pc = "reader"
    /\ Returned("ReadObjectHeader", None, ReadObjectHeader(reader))

PeekCall(n) ==
    /\ pc = "reader"
    /\ Returned("Peek", n, Peek(reader, n))

CodecNext ==
    \/ \E v \in {7, 250} : WriteByteCall(v)
    \/ \E v \in BOOLEAN : WriteBoolCall(v)
    \/ \E v \in {-32768, 300} : WriteInt16Call(v)
    \/ \E v \in {300, MinInt32} : WriteInt32Call(v)
    \/ \E v \in {-1, 2147483647} : WriteInt64Call(v)
    \/ \E v \in {One32} : WriteFloat32Call(v)
    \/ \E v \in {One64} : WriteFloat64Call(v)
    \/ \E v \in {NilSlice, [nil |-> FALSE, items |-> <<>>],
                  [nil |-> FALSE, items |-> <<1, 2>>]} : WriteBytesCall(v)
    \/ \E v \in {<<>>, <<97>>, <<195, 169>>} : WriteStringCall(v)
    \/ \E n \in {2} : WriteCollectionHeaderCall(n)
    \/ WriteNullCollectionHeaderCall
    \/ \E n \in {-1, 3, MaxMemberCount + 1} : WriteObjectHeaderOn(n)
    \/ NewReaderCall
    \/ \E d \in ForeignBuffers : NewReaderOn(d)
    \/ ReadByteCall
    \/ ReadBoolCall
    \/ ReadInt16Call
    \/ ReadInt32Call
    \/ ReadInt64Call
    \/ ReadFloat32Call
    \/ ReadFloat64Call
    \/ ReadBytesCall
    \/ ReadStringCall
    \/ ReadCollectionHeaderCall
    \/ ReadObjectHeaderCall
    \/ \E n \in {0, 1, 4} : PeekCall(n)

CodecSpec == CodecInit /\ [][CodecNext]_vars

(***************************************************************************)
(* Goroutines that resolve schemas: each calls getFormatterData, as        *)
(* SerializeStruct and DeserializeStruct do, again and again, and the      *)
(* steps of its call (the Load of the cache, each turn of the loop of      *)
(* createFormatterData, its sort, the Store) interleave with those of the  *)
(* others.  formatterCache is a sync.Map: a Load and a Store are atomic.   *)
(***************************************************************************)
\* the goroutines
MaxGoroutines == 2

Goroutines == 1..MaxGoroutines

\* the struct types whose schemas are resolved
SchemaTypes == {StructOf("Tied"), StructOf("TiedWide")}

\* the functions that the sort.Slice of a build can be, on the slices that
\* createFormatterData passes to it
SortFunctions ==
    LET slices == {appended(t) : t \in SchemaTypes}
    IN  {f \in [slices -> UNION {SortOutcomes(l) : l \in slices}] :
            \A l \in slices : f[l] \in SortOutcomes(l)}

\* a goroutine outside getFormatterData
Idle == [pc |-> "idle"]

SchemaInit ==
    /\ pc = "schema"
    /\ formatterCache = <<>>
    /\ resolving = [g \in Goroutines |-> Idle]
    /\ sortSlice \in SortFunctions
    /\ arg = None
    /\ w = NewWriter(InitialCapacity)
    /\ out = None
    /\ data = <<>>
    /\ target = None
    /\ res = None
    /\ reader = NewReader(<<>>)
    /\ call = None
    /\ log = <<>>

\* what a step of a goroutine leaves alone
Elsewhere == <<pc, arg, w, out, data, target, res, reader, call, log, sortSlice>>

\* goroutine g calls getFormatterData(t)
Resolve(g, t) ==
    /\ pc = "schema"
    /\ resolving[g].pc = "idle"
    /\ resolving' = [resolving EXCEPT ![g] = [pc |-> "load", t |-> t]]
    /\ UNCHANGED formatterCache
    /\ UNCHANGED Elsewhere

\* formatterCache.Load(t): what is found is returned; if nothing is found
\* createFormatterData is entered, with fd.fields empty
Load(g) ==
    LET t == resolving[g].t
    IN  /\ pc = "schema"
        /\ resolving[g].pc = "load"
        /\ resolving' =
              [resolving EXCEPT ![g] =
                  IF t.name \in DOMAIN formatterCache
                  THEN [pc |-> "done", t |-> t, found |-> TRUE,
                        fd |-> formatterCache[t.name]]
                  ELSE [pc |-> "loop", t |-> t, i |-> 0,
                        fd |-> [fields |-> <<>>]]]
        /\ UNCHANGED formatterCache
        /\ UNCHANGED Elsewhere

\* one turn of the loop of createFormatterData, for field i
AppendField(g) ==
    LET t == resolving[g].t
        i == resolving[g].i
        field == StructFields(t.name)[i + 1]
        info == [ index |-> i, kind |-> field.type.kind, name |-> field.name,
                  order |-> FieldOrder(field, i) ]
    IN  /\ pc = "schema"
        /\ resolving[g].pc = "loop"
        /\ i < Len(StructFields(t.name))
        /\ resolving' =
              [resolving EXCEPT
                  ![g].i = i + 1,
                  ![g].fd.fields =
                      IF ~field.exported \/ field.tag = <<"-">> THEN @
                      ELSE Append(@, info)]
        /\ UNCHANGED formatterCache
        /\ UNCHANGED Elsewhere

\* the loop is done: sort.Slice(fd.fields, ...), in place
SortFields(g) ==
    LET t == resolving[g].t
    IN  /\ pc = "schema"
        /\ resolving[g].pc = "loop"
        /\ resolving[g].i = Len(StructFields(t.name))
        /\ resolving' =
              [resolving EXCEPT ![g] =
                  [pc |-> "store", t |-> t,
                   fd |-> [fields |-> SortSlice(sortSlice, @.fd.fields)]]]
        /\ UNCHANGED formatterCache
        /\ UNCHANGED Elsewhere

\* formatterCache.Store(t, fd), and fd is returned
Store(g) ==
    LET t == resolving[g].t
        fd == resolving[g].fd
    IN  /\ pc = "schema"
        /\ resolving[g].pc = "store"
        /\ formatterCache' =
              (t.name :> fd) @@
              [n \in DOMAIN formatterCache \ {t.name} |-> formatterCache[n]]
        /\ resolving' =
              [resolving EXCEPT ![g] =
                  [pc |-> "done", t |-> t, found |-> FALSE, fd |-> fd]]
        /\ UNCHANGED Elsewhere

\* the caller of getFormatterData has used what it got
Resolved(g) ==
    /\ pc = "schema"
    /\ resolving[g].pc = "done"
    /\ resolving' = [resolving EXCEPT ![g] = Idle]
    /\ UNCHANGED formatterCache
    /\ UNCHANGED Elsewhere

SchemaNext ==
    \/ \E g \in Goroutines, t \in SchemaTypes : Resolve(g, t)
    \/ \E g \in Goroutines : Load(g)
    \/ \E g \in Goroutines : AppendField(g)
    \/ \E g \in Goroutines : SortFields(g)
    \/ \E g \in Goroutines : Store(g)
    \/ \E g \in Goroutines : Resolved(g)

SchemaSpec == SchemaInit /\ [][SchemaNext]_vars

(***************************************************************************)
(* What the properties below speak of.                                     *)
(***************************************************************************)
\* Serialize(&x) was called with x of a type in T
Passed(T) ==
    /\ pc \in {"writing", "returned", "read"}
    /\ arg # None
    /\ arg[1].kind = "Ptr"
    /\ arg[1].elem \in T

\* Serialize(&x) was called with x of the struct type name
PassedStruct(name) == Passed({StructOf(name)})

\* Deserialize has read the whole output of Serialize into a zero value
RoundTripped ==
    pc = "read" /\ arg # None /\ target = arg[1] /\ data = out.bytes

\* Deserialize has read a strict prefix of the output of Serialize
Truncated ==
    pc = "read" /\ arg # None /\ target = arg[1] /\ Len(data) < Len(out.bytes)

\* x of Serialize(&x), and what Deserialize left in the result
Original == arg[2].elem

Result == res.v.elem

RECURSIVE Equal(_, _, _)
\* the comparison of testRoundTrip: reflect.DeepEqual, and two NaN are equal
Equal(t, a, b) ==
    CASE t.kind = "Float32" -> a = b \/ (IsNaN32(a) /\ IsNaN32(b))
      [] t.kind = "Float64" -> a = b \/ (IsNaN64(a) /\ IsNaN64(b))
      [] t.kind = "Slice" ->
           /\ a.nil = b.nil
           /\ Len(a.items) = Len(b.items)
           /\ \A i \in 1..Len(a.items) :
                  t.elem.kind = "Uint8" \/ Equal(t.elem, a.items[i], b.items[i])
           /\ t.elem.kind = "Uint8" => a.items = b.items
      [] t.kind = "Array" ->
           \A i \in 1..t.len : Equal(t.elem, a[i], b[i])
      [] t.kind = "Map" ->
           /\ a.nil = b.nil
           /\ Cardinality(a.m) = Cardinality(b.m)
           /\ \A e \in a.m : \E f \in b.m :
                  Equal(t.key, e[1], f[1]) /\ Equal(t.elem, e[2], f[2])
      [] t.kind = "Ptr" ->
           /\ a.nil = b.nil
           /\ ~a.nil => Equal(t.elem, Deref(a), Deref(b))
      [] t.kind = "Struct" ->
           \A i \in 1..Len(StructFields(t.name)) :
               Equal(StructFields(t.name)[i].type, a[i], b[i])
      [] OTHER -> a = b

\* a Writer as Serialize makes it
Fresh == NewWriter(InitialCapacity)

DepthExceeded == "serialization depth exceeded"

(***************************************************************************)
(* C1: Round trip.  For every value x of a type built from the scalars,    *)
(* strings, byte slices, slices, arrays, maps and structs, Serialize(&x)   *)
(* succeeds, and Deserialize of its output into a zero value succeeds and  *)
(* leaves a value equal to x: nil and empty slices and maps stay apart,    *)
(* and a NaN comes back as a NaN.                                          *)
(***************************************************************************)
C1_RoundTrip ==
    Passed(PlainTypes) =>
        /\ pc = "returned" => out.err = NoError
        /\ RoundTripped =>
              /\ res.err = NoError
              /\ ~res.panic
              /\ res.pos = Len(data)
              /\ Equal(arg[1].elem, Original, Result)

\* a map of two entries has gone through Serialize and Deserialize
C1_Witness ==
    /\ Passed({MapOf(TString, TInt)})
    /\ RoundTripped
    /\ ~Original.nil
    /\ Cardinality(Original.m) = 2
    /\ Result = Original

(***************************************************************************)
(* C2: Pointer round trip.  For every pointer p to a scalar, a string or a *)
(* struct, Deserialize of Serialize(&p) leaves a nil pointer exactly if p  *)
(* is nil, and otherwise a pointer to a value equal to *p, whatever the    *)
(* first byte of the encoding of *p is.                                    *)
(***************************************************************************)
C2_PointerRoundTrip ==
    ( /\ Passed(PointerTypes)
      /\ arg[1].elem.kind = "Ptr"
      /\ RoundTripped ) =>
        /\ res.err = NoError
        /\ ~res.panic
        /\ IF Original.nil THEN Result.nil
           ELSE ~Result.nil /\ Equal(arg[1].elem, Original, Result)

\* a pointer to a value whose encoding starts with 0xFF has gone through
\* Serialize and Deserialize
C2_Witness ==
    /\ Passed(PointerTypes)
    /\ arg[1].elem.kind = "Ptr"
    /\ RoundTripped
    /\ ~Original.nil
    /\ out.bytes[1] = NullObject

(***************************************************************************)
(* C3: Null and empty.  A nil byte slice, slice or map is written as the   *)
(* int32 header -1 and an empty one as the header 0, and each is read back *)
(* as what it was; the empty string is written as the header 0, and both   *)
(* the header 0 and the null header -1 are read as the empty string.       *)
(***************************************************************************)
NullHeader == <<255, 255, 255, 255>>

EmptyHeader == <<0, 0, 0, 0>>

C3_NullVsEmpty ==
    /\ ( /\ Passed(PlainTypes)
         /\ arg[1].elem.kind \in {"Slice", "Map"}
         /\ pc \in {"returned", "read"} ) =>
           /\ Original.nil => out.bytes = NullHeader
           /\ Original = [nil |-> FALSE, items |-> <<>>] => out.bytes = EmptyHeader
           /\ Original = [nil |-> FALSE, m |-> {}] => out.bytes = EmptyHeader
           /\ RoundTripped => res.err = NoError /\ Result = Original
    /\ ( /\ Passed({TString})
         /\ Original = <<>>
         /\ pc \in {"returned", "read"} ) => out.bytes = EmptyHeader
    /\ ( /\ pc = "read"
         /\ target = PtrTo(TString)
         /\ data \in {NullHeader, EmptyHeader} ) =>
           /\ res.err = NoError
           /\ Result = <<>>

(***************************************************************************)
(* C4: Truncation.  For every value x and every strict prefix d of the     *)
(* output of Serialize(&x), the empty one included, Deserialize of d into  *)
(* a zero value of the type of x returns an error and does not panic.      *)
(***************************************************************************)
C4_Truncation ==
    (Passed(PlainTypes \cup PointerTypes) /\ Truncated) =>
        /\ res.err # NoError
        /\ ~res.panic

(***************************************************************************)
(* C5: Order tags.  The fields of TaggedStruct, declared First (order 2),  *)
(* Second (order 1), Third (order 0), are written Third, Second, First     *)
(* after the header 3, and read in that order, so that each field gets its *)
(* own value back.                                                         *)
(***************************************************************************)
C5_OrderTags ==
    PassedStruct("TaggedStruct") =>
        /\ pc = "returned" =>
              /\ out.err = NoError
              /\ out.bytes =
                   GetBytes(WriteString(
                              WriteInt64(
                                WriteBool(WriteByte(Fresh, 3), Original[3]),
                                Original[2]),
                              Original[1]))
        /\ RoundTripped => res.err = NoError /\ Result = Original

\* a TaggedStruct whose three fields differ from their zero values has been
\* written and read back
C5_Witness ==
    /\ PassedStruct("TaggedStruct")
    /\ RoundTripped
    /\ Original = << <<97>>, 42, TRUE >>
    /\ Result = Original
    /\ out.bytes[1] = 3
    /\ out.bytes[2] = 1

TooDeep ==
    /\ pc \in {"writing", "returned"}
    /\ arg \in { <<PtrTo(StructOf("CircularStruct")), PtrToObject(CircularA)>>,
                 <<PtrTo(StructOf("LinkedNode")), PtrToObject(1)>> }

C7_DepthGuard ==
    TooDeep =>
        /\ pc = "returned"
        /\ out.err = DepthExceeded
        /\ out.bytes = <<>>
        /\ w.depth <= MaxDepth + 1

\* Serialize of the cyclic pair has returned the depth error
C7_Witness ==
    /\ pc = "returned"
    /\ arg = <<PtrTo(StructOf("CircularStruct")), PtrToObject(CircularA)>>
    /\ out.err = DepthExceeded
    /\ w.pos > MaxDepth

(***************************************************************************)
(* C8: Oversized schema.  WriteObjectHeader(n) with n > 249 returns an     *)
(* error and writes no byte; with 0 <= n <= 249 it writes the one byte n   *)
(* and returns no error.  So Serialize of a struct of 250 serializable     *)
(* fields fails, and one of 249 fields succeeds with the header 249.       *)
(***************************************************************************)
C8_OversizedSchema ==
    /\ pc = "header" =>
          IF arg[2] > 249 THEN out.err # NoError /\ w.pos = 0
          ELSE IF arg[2] >= 0 THEN out.err = NoError /\ GetBytes(w) = <<arg[2]>>
          ELSE TRUE
    /\ (PassedStruct("TooWide") /\ pc = "returned") =>
          out.err # NoError /\ out.bytes = <<>>
    /\ (PassedStruct("Wide") /\ pc = "returned") =>
          out.err = NoError /\ out.bytes[1] = 249

\* WriteObjectHeader(250) has returned its error
C8_Witness ==
    /\ pc = "header"
    /\ arg[2] = 250
    /\ out.err = "member count too large"
    /\ w.pos = 0

(***************************************************************************)
(* C9: The Formatter owns the bytes.  When the value passed to Serialize   *)
(* implements Formatter, the bytes returned are exactly those its own      *)
(* Serialize method wrote: nothing is put before or after them.            *)
(***************************************************************************)
C9_FormatterOwnsBytes ==
    ( /\ pc = "returned"
      /\ arg[1].kind = "Ptr"
      /\ ImplementsFormatter(arg[1]) ) =>
        /\ out.err = NoError
        /\ out.bytes = GetBytes(CustomSerialize(Fresh, Original).w)

(***************************************************************************)
(* C10: The Formatter is consulted for nested values.  When a struct field *)
(* (Item of CustomHolder) or a slice element has a type that implements    *)
(* Formatter, its bytes are those of its own Serialize method, not those   *)
(* of the generic encoding of its struct.                                  *)
(***************************************************************************)
C10_NestedFormatter ==
    /\ ( /\ PassedStruct("CustomHolder")
         /\ pc = "returned"
         /\ ~Original[1].nil ) =>
           /\ out.err = NoError
           /\ out.bytes =
                GetBytes(CustomSerialize(WriteByte(Fresh, 1), Original[1].elem).w)
    /\ ( /\ Passed({SliceOf(PtrTo(StructOf("CustomFormat")))})
         /\ pc = "returned"
         /\ ~Original.nil
         /\ Len(Original.items) = 1
         /\ ~Original.items[1].nil ) =>
           /\ out.err = NoError
           /\ out.bytes =
                GetBytes(CustomSerialize(WriteCollectionHeader(Fresh, 1),
                                         Original.items[1].elem).w)

(***************************************************************************)
(* C11: Invalid target.  Deserialize called with a second argument that is *)
(* not a pointer, and does not implement Formatter, returns an error and   *)
(* reads no byte of the input, whatever the input is; the argument is left *)
(* as it was.                                                              *)
(***************************************************************************)
C11_InvalidTarget ==
    (pc = "read" /\ target.kind # "Ptr") =>
        /\ res.err # NoError
        /\ ~res.panic
        /\ res.pos = 0
        /\ res.v = Deref(arg[2])

\* the whole output of Serialize(&value) for an int has been passed to
\* Deserialize together with value itself
C11_Witness ==
    /\ pc = "read"
    /\ target = TInt
    /\ data = out.bytes
    /\ data = <<42, 0, 0, 0, 0, 0, 0, 0>>
    /\ res.err = "deserialize requires a pointer to a value"
    /\ res.pos = 0

(***************************************************************************)
(* C12: Schema mismatch.  DeserializeStruct returns an error whenever the  *)
(* member count of the object header (0..249) differs from the number of   *)
(* fields in the schema of the target type; only the header byte has then  *)
(* been read and no field has been assigned.                               *)
(***************************************************************************)
\* the number of fields in the schema of struct type t
SchemaSize(t) == Len(createFormatterData(t).fields)

C12_SchemaMismatch ==
    ( /\ pc = "read"
      /\ target.kind = "Ptr"
      /\ target.elem.kind = "Struct"
      /\ ~ImplementsFormatter(target)
      /\ data # <<>>
      /\ data[1] <= MaxMemberCount
      /\ data[1] # SchemaSize(target.elem) ) =>
        /\ res.err = "field count mismatch during deserialization"
        /\ ~res.panic
        /\ res.pos = 1
        /\ Result = Zero(target.elem)

\* the bytes of MyStruct{Value: 42} have been read into a DifferentStruct
C12_Witness ==
    /\ pc = "read"
    /\ target = PtrTo(StructOf("DifferentStruct"))
    /\ data = <<1, 42, 0, 0, 0, 0, 0, 0, 0>>
    /\ res.err = "field count mismatch during deserialization"
    /\ res.pos = 1

(***************************************************************************)
(* C13: No process-terminating failure.  For every input, malformed ones   *)
(* included (a collection header that is negative, or larger than the      *)
(* target array or than the rest of the input), and every pointer to a     *)
(* value of a supported type, Deserialize returns success or an error: it  *)
(* never panics.                                                           *)
(***************************************************************************)
C13_NoPanic ==
    (pc = "read" /\ target.kind = "Ptr") => ~res.panic

\* the collection header -2 has been read into a slice
C13_Witness ==
    /\ pc = "read"
    /\ target = PtrTo(SliceOf(TInt8))
    /\ data = <<254, 255, 255, 255>>
    /\ res.panic

(***************************************************************************)
(* What the properties of the codecs speak of.                             *)
(***************************************************************************)
\* the bytes that the k-th write call of the client left in the buffer
BytesOf(k) ==
    SubSeq(w.buffer, log[k].at + 1,
           IF k < Len(log) THEN log[k + 1].at ELSE w.pos)

\* the last call was the read call op, made where the k-th write call
\* had started to write
ReadBack(op, k) ==
    /\ pc = "reader"
    /\ call.op = op
    /\ call.before = log[k].at

\* the last read call succeeded, returned v and consumed n bytes
Gave(v, n) ==
    /\ call.err = NoError
    /\ call.v = v
    /\ reader.pos = call.before + n

\* byte i, counted from 1, of the two's-complement bit pattern of v, for v
\* inside the 32-bit range: the bytes past the fourth repeat the sign
PatternByte(v, i) ==
    IF i <= 4 THEN (v \div 256 ^ (i - 1)) % 256
    ELSE IF v < 0 THEN 255 ELSE 0

Pattern(v, width) == <<>> \o [i \in 1..width |-> PatternByte(v, i)]

IntWidth(op) ==
    CASE op \in {"WriteInt16", "ReadInt16"} -> 2
      [] op \in {"WriteInt32", "ReadInt32"} -> 4
      [] op \in {"WriteInt64", "ReadInt64"} -> 8

MatchingRead(op) ==
    CASE op = "WriteInt16" -> "ReadInt16"
      [] op = "WriteInt32" -> "ReadInt32"
      [] op = "WriteInt64" -> "ReadInt64"

(***************************************************************************)
(* C14: Fixed-width little-endian primitives.  WriteInt16, WriteInt32 and  *)
(* WriteInt64 append exactly 2, 4 and 8 bytes: the two's-complement bit    *)
(* pattern of the value, least significant byte first; the matching read   *)
(* returns the value written.  int32(300) is written as 2C 01 00 00, the   *)
(* empty string as 00 00 00 00, a nil byte slice as FF FF FF FF.           *)
(***************************************************************************)
C14_LittleEndian ==
    \A k \in 1..Len(log) :
        /\ log[k].op \in {"WriteInt16", "WriteInt32", "WriteInt64"} =>
              /\ BytesOf(k) = Pattern(log[k].arg, IntWidth(log[k].op))
              /\ ReadBack(MatchingRead(log[k].op), k) =>
                     Gave(log[k].arg, IntWidth(log[k].op))
        /\ (log[k].op = "WriteInt32" /\ log[k].arg = 300) =>
              BytesOf(k) = <<44, 1, 0, 0>>
        /\ (log[k].op = "WriteString" /\ log[k].arg = <<>>) =>
              BytesOf(k) = <<0, 0, 0, 0>>
        /\ (log[k].op = "WriteBytes" /\ log[k].arg.nil) =>
              BytesOf(k) = <<255, 255, 255, 255>>

\* the int64 -1 has been written as eight bytes FF and read back
C14_Witness ==
    /\ pc = "reader"
    /\ Len(log) = 1
    /\ log[1].op = "WriteInt64"
    /\ log[1].arg = -1
    /\ reader.buffer = <<255, 255, 255, 255, 255, 255, 255, 255>>
    /\ call.op = "ReadInt64"
    /\ call.v = -1
    /\ reader.pos = 8

(***************************************************************************)
(* C15: String wire layout.  WriteString of the empty string appends       *)
(* exactly the four bytes of the header 0.  WriteString of a string of     *)
(* n > 0 bytes appends exactly 8 + n bytes: the int32 ~n, which is         *)
(* negative, an int32 length field, and the n bytes.  ReadString on them   *)
(* returns the string and consumes exactly the bytes written.              *)
(***************************************************************************)
C15_StringLayout ==
    \A k \in 1..Len(log) :
        log[k].op = "WriteString" =>
            /\ log[k].arg = <<>> =>
                  /\ BytesOf(k) = <<0, 0, 0, 0>>
                  /\ ReadBack("ReadString", k) => Gave(<<>>, 4)
            /\ log[k].arg # <<>> =>
                  /\ Len(BytesOf(k)) = 8 + Len(log[k].arg)
                  /\ SubSeq(BytesOf(k), 1, 4) = Pattern(-Len(log[k].arg) - 1, 4)
                  /\ BytesOf(k)[4] >= 128
                  /\ SubSeq(BytesOf(k), 9, 8 + Len(log[k].arg)) = log[k].arg
                  /\ ReadBack("ReadString", k) =>
                         Gave(log[k].arg, 8 + Len(log[k].arg))

\* a string of two bytes has been written as ten bytes and read back
C15_Witness ==
    /\ pc = "reader"
    /\ Len(log) = 1
    /\ log[1].op = "WriteString"
    /\ log[1].arg = <<195, 169>>
    /\ reader.buffer = <<253, 255, 255, 255, 2, 0, 0, 0, 195, 169>>
    /\ call.op = "ReadString"
    /\ call.v = <<195, 169>>
    /\ reader.pos = 10

\* the int32 header that the last read call found under the cursor
HeaderRead == FromLittleEndian(SubSeq(reader.buffer, call.before + 1,
                                      call.before + 4))

\* the last call was the read call op, with at least n bytes left to read
ReadAt(op, n) ==
    /\ pc = "reader"
    /\ call.op = op
    /\ call.before + n <= Len(reader.buffer)

(***************************************************************************)
(* C16: Null and empty strings decode identically.  ReadString returns the *)
(* empty string and no error both for the header 0 and for the null header *)
(* -1 (FF FF FF FF), and consumes exactly the four header bytes in both    *)
(* cases, so that the value behind the header is read next.                *)
(***************************************************************************)
C16_NullString ==
    (ReadAt("ReadString", 4) /\ HeaderRead \in {0, NullCollection}) =>
        Gave(<<>>, 4)

\* ReadString has read the null header and taken the four bytes behind it
\* as well
C16_Witness ==
    /\ ReadAt("ReadString", 4)
    /\ HeaderRead = NullCollection
    /\ reader.buffer = <<255, 255, 255, 255, 1, 0, 0, 0, 7>>
    /\ call.err = NoError
    /\ reader.pos = 8

(***************************************************************************)
(* C17: Reserved object tags.  ReadObjectHeader returns an error for every *)
(* header byte in 250..254; it returns a member count only for the bytes   *)
(* 0..249, and the null object only for the byte 255.                      *)
(***************************************************************************)
C17_ReservedTags ==
    ReadAt("ReadObjectHeader", 1) =>
        LET header == reader.buffer[call.before + 1]
        IN  IF header \in (MaxMemberCount + 1)..(NullObject - 1)
            THEN call.err # NoError
            ELSE /\ call.err = NoError
                 /\ call.v.isNull = (header = NullObject)
                 /\ ~call.v.isNull => call.v.count = header

\* ReadObjectHeader has returned the reserved tag 250 as a member count
C17_Witness ==
    /\ ReadAt("ReadObjectHeader", 1)
    /\ reader.buffer[call.before + 1] = 250
    /\ call.err = NoError
    /\ call.v = [count |-> 250, isNull |-> FALSE]

(***************************************************************************)
(* C18: Malformed collection header.  ReadCollectionHeader returns an      *)
(* error for every int32 header that is negative and not the null header   *)
(* -1; it returns a count only for headers >= 0 and null only for -1.      *)
(***************************************************************************)
C18_MalformedHeader ==
    ReadAt("ReadCollectionHeader", 4) =>
        IF HeaderRead < NullCollection THEN call.err # NoError
        ELSE /\ call.err = NoError
             /\ call.v.isNull = (HeaderRead = NullCollection)
             /\ ~call.v.isNull => call.v.length = HeaderRead

\* ReadCollectionHeader has returned the header -2 as a length
C18_Witness ==
    /\ ReadAt("ReadCollectionHeader", 4)
    /\ HeaderRead = -2
    /\ call.err = NoError
    /\ call.v = [length |-> -2, isNull |-> FALSE]

(***************************************************************************)
(* C19: Reader cursor discipline.  Over any sequence of Reader calls on    *)
(* any buffer, 0 <= pos <= len(buffer); a successful read moves pos on by  *)
(* exactly the bytes it consumed (Peek by none); a read that returns an    *)
(* error leaves pos where it was before the call, also when ReadBytes or   *)
(* ReadString fails after its header has been decoded.                     *)
(***************************************************************************)
\* the bytes that the last read call, a successful one, consumed
Consumed ==
    CASE call.op \in {"ReadByte", "ReadBool", "ReadObjectHeader"} -> 1
      [] call.op = "ReadInt16" -> 2
      [] call.op \in {"ReadInt32", "ReadFloat32", "ReadCollectionHeader"} -> 4
      [] call.op \in {"ReadInt64", "ReadFloat64"} -> 8
      [] call.op = "ReadBytes" -> 4 + Len(call.v.items)
      [] call.op = "ReadString" ->
           IF HeaderRead >= 0 THEN 4 ELSE 8 + Len(call.v)
      [] call.op = "Peek" -> 0

C19_CursorDiscipline ==
    pc = "reader" =>
        /\ 0 <= reader.pos
        /\ reader.pos <= Len(reader.buffer)
        /\ call.op # "NewReader" =>
               IF call.err = NoError
               THEN reader.pos = call.before + Consumed
               ELSE reader.pos = call.before

\* ReadBytes has found the length 5 before a single byte and has returned
\* an error with the cursor behind the header
C19_Witness ==
    /\ pc = "reader"
    /\ reader.buffer = <<5, 0, 0, 0, 1>>
    /\ call.op = "ReadBytes"
    /\ call.before = 0
    /\ call.err # NoError
    /\ reader.pos = 4

(***************************************************************************)
(* C20: Writer buffer discipline.  For any initial capacity and any        *)
(* sequence of write calls, pos <= len(buffer) after every call, the       *)
(* buffer never gets shorter, each growth makes its length the larger of   *)
(* twice the old length and pos + the bytes needed, and GetBytes returns   *)
(* the bytes of all the writes, in call order: growth keeps what was       *)
(* written before.                                                         *)
(***************************************************************************)
\* the bytes of one write call, after the wire format
Encoded(c) ==
    CASE c.op = "WriteByte" -> <<c.arg>>
      [] c.op = "WriteBool" -> <<IF c.arg THEN 1 ELSE 0>>
      [] c.op \in {"WriteInt16", "WriteInt32", "WriteInt64"} ->
           Pattern(c.arg, IntWidth(c.op))
      [] c.op = "WriteFloat32" -> Float32Bytes(c.arg)
      [] c.op = "WriteFloat64" -> Float64Bytes(c.arg)
      [] c.op = "WriteBytes" ->
           IF c.arg.nil THEN Pattern(-1, 4)
           ELSE Pattern(Len(c.arg.items), 4) \o c.arg.items
      [] c.op = "WriteString" ->
           IF c.arg = <<>> THEN Pattern(0, 4)
           ELSE Pattern(-Len(c.arg) - 1, 4) \o Pattern(Len(c.arg), 4) \o c.arg
      [] c.op = "WriteCollectionHeader" -> Pattern(c.arg, 4)
      [] c.op = "WriteNullCollectionHeader" -> Pattern(-1, 4)
      [] c.op = "WriteObjectHeader" ->
           IF c.arg < 0 THEN <<255>>
           ELSE IF c.arg <= 249 THEN <<c.arg>>
           ELSE <<>>

RECURSIVE Concatenation(_)
Concatenation(calls) ==
    IF calls = <<>> THEN <<>>
    ELSE Encoded(Head(calls)) \o Concatenation(Tail(calls))

\* what one write call asks of the buffer, in order: <<the bytes needed,
\* the bytes written before the next request>>
Requests(c) ==
    CASE c.op = "WriteBytes" /\ ~c.arg.nil /\ c.arg.items # <<>> ->
           << <<4, 4>>, <<Len(c.arg.items), Len(c.arg.items)>> >>
      [] c.op = "WriteString" /\ c.arg # <<>> ->
           << <<Len(c.arg) + 8, 0>>, <<4, 4>>, <<4, 4 + Len(c.arg)>> >>
      [] c.op = "WriteObjectHeader" /\ c.arg > 249 -> <<>>
      [] OTHER -> << <<Len(Encoded(c)), Len(Encoded(c))>> >>

RECURSIVE GrownLength(_, _, _)
\* the length of a buffer of length len, written up to pos, after requests
GrownLength(len, pos, requests) ==
    IF requests = <<>> THEN len
    ELSE GrownLength(IF pos + Head(requests)[1] <= len THEN len
                     ELSE IF 2 * len >= pos + Head(requests)[1] THEN 2 * len
                     ELSE pos + Head(requests)[1],
                     pos + Head(requests)[2],
                     Tail(requests))

C20_WriterBuffer ==
    /\ [](pc = "writer" =>
            /\ w.pos <= Len(w.buffer)
            /\ GetBytes(w) = Concatenation(log))
    /\ [][(pc = "writer" /\ pc' = "writer") =>
            /\ Len(w'.buffer) >= Len(w.buffer)
            /\ Len(w'.buffer) =
                  GrownLength(Len(w.buffer), w.pos, Requests(call'))
            /\ SubSeq(w'.buffer, 1, w.pos) = GetBytes(w)]_vars

\* a buffer of two bytes, full after WriteInt16, has been doubled by
\* WriteByte
C20_Witness ==
    /\ pc = "writer"
    /\ Len(log) = 2
    /\ log[1].op = "WriteInt16"
    /\ log[2].op = "WriteByte"
    /\ Len(w.buffer) = 4
    /\ w.pos = 3
    /\ GetBytes(w) = <<44, 1, 7>>

(***************************************************************************)
(* C21: Depth counter.  When Serialize has returned, with or without an    *)
(* error, the depth of its writer is 0 again and within 0..MaxDepth: every *)
(* increment of CheckDepth has been matched by an EndCheckDepth.           *)
(***************************************************************************)
C21_DepthCounter ==
    (pc \in {"returned", "read"} /\ arg # None) =>
        /\ 0 <= w.depth
        /\ w.depth <= MaxDepth
        /\ w.depth = 0

\* Serialize of the cyclic pair has returned the depth error, and the
\* increment of the CheckDepth that failed is still on the counter
C21_Witness ==
    /\ pc = "returned"
    /\ arg = <<PtrTo(StructOf("CircularStruct")), PtrToObject(CircularA)>>
    /\ out.err = DepthExceeded
    /\ w.depth = 1

(***************************************************************************)
(* C24: Depth counts nesting, not size.  A Serialize call that returns     *)
(* without an error leaves the depth of its writer where it was on entry,  *)
(* at 0: the calls made for sibling elements and fields add nothing.  So   *)
(* Serialize of a flat slice, array or map of FlatLen > MaxDepth scalars   *)
(* returns no error and every element's bytes after the header.            *)
(***************************************************************************)
\* the bytes of one element or entry of the flat collection t
FlatWidth(t) ==
    CASE t.kind = "Slice" -> 1
      [] t.kind = "Array" -> 1
      [] t.kind = "Map" -> 3

C24_DepthIsNesting ==
    (pc \in {"writing", "returned", "read"} /\ arg # None) =>
        /\ (pc # "writing" /\ out.err = NoError) => w.depth = 0
        /\ arg \in FlatArgs =>
              /\ pc = "returned"
              /\ out.err = NoError
              /\ w.depth = 0
              /\ Len(out.bytes) = 4 + FlatLen * FlatWidth(arg[1].elem)
              /\ SubSeq(out.bytes, 1, 4) = LittleEndian(FlatLen, 4)

\* Serialize of the slice of FlatLen bools has returned its 4 + FlatLen
\* bytes
C24_Witness ==
    /\ pc = "returned"
    /\ arg \in FlatArgs
    /\ arg[1].elem.kind = "Slice"
    /\ out.err = NoError
    /\ Len(out.bytes) = 4 + FlatLen
    /\ out.bytes[4 + FlatLen] = 0
    /\ w.depth = 0

(***************************************************************************)
(* C22: Schema cache under concurrency.  However the Load, loop, sort and  *)
(* Store steps of concurrent getFormatterData calls interleave: every      *)
(* schema in the cache, and every schema a call returns, holds each        *)
(* serializable field of its type once and no other, in ascending order;   *)
(* what a call returns is what the cache holds for the type, so all        *)
(* callers get the same fields in the same order; and an entry of the      *)
(* cache, once there, stays and keeps its content (a later Store puts an   *)
(* equal schema in its place).                                             *)
(***************************************************************************)
\* fd holds each serializable field of the struct type name once
Complete(name, fd) ==
    LET decl == StructFields(name)
        kept == {i \in 1..Len(decl) :
                    decl[i].exported /\ decl[i].tag # <<"-">>}
    IN  /\ Len(fd.fields) = Cardinality(kept)
        /\ \A i \in kept : \E p \in 1..Len(fd.fields) :
               fd.fields[p] = [ index |-> i - 1,
                                kind  |-> decl[i].type.kind,
                                name  |-> decl[i].name,
                                order |-> FieldOrder(decl[i], i - 1) ]

\* the fields of fd are in ascending order
Sorted(fd) ==
    \A p, q \in 1..Len(fd.fields) :
        p < q => fd.fields[p].order <= fd.fields[q].order

\* the goroutines whose call of getFormatterData has returned
Returning == {g \in Goroutines : resolving[g].pc = "done"}

C22_SchemaCache ==
    /\ [](pc = "schema" =>
            /\ \A name \in DOMAIN formatterCache :
                  /\ Complete(name, formatterCache[name])
                  /\ Sorted(formatterCache[name])
            /\ \A g \in Returning :
                  /\ Complete(resolving[g].t.name, resolving[g].fd)
                  /\ Sorted(resolving[g].fd)
                  /\ resolving[g].t.name \in DOMAIN formatterCache
                  /\ resolving[g].fd = formatterCache[resolving[g].t.name]
            /\ \A g, h \in Returning :
                  resolving[g].t = resolving[h].t =>
                      resolving[g].fd = resolving[h].fd)
    /\ [][pc = "schema" =>
            \A name \in DOMAIN formatterCache :
                /\ name \in DOMAIN formatterCache'
                /\ formatterCache'[name] = formatterCache[name]]_vars

\* two calls for Tied that both found nothing in the cache, built the
\* schema and stored it have returned, with four fields from Third to
\* Second
C22_Witness ==
    /\ pc = "schema"
    /\ \A g \in {1, 2} :
          /\ resolving[g].pc = "done"
          /\ resolving[g].t = StructOf("Tied")
          /\ ~resolving[g].found
          /\ Len(resolving[g].fd.fields) = 4
          /\ resolving[g].fd.fields[1].name = "Third"
          /\ resolving[g].fd.fields[4].name = "Second"

(***************************************************************************)
(* C23: Stable field order on ties.  In every schema of the cache, fields  *)
(* of the same order stand in the order of their declaration: a field      *)
(* stands before another only if its order is smaller, or is the same and  *)
(* its index is smaller.                                                   *)
(***************************************************************************)
\* the fields of fd are in ascending order, those of equal order by index
StablySorted(fd) ==
    \A p, q \in 1..Len(fd.fields) :
        p < q =>
            \/ fd.fields[p].order < fd.fields[q].order
            \/ /\ fd.fields[p].order = fd.fields[q].order
               /\ fd.fields[p].index < fd.fields[q].index

C23_StableOrder ==
    pc = "schema" =>
        \A name \in DOMAIN formatterCache : StablySorted(formatterCache[name])

\* the cache holds the schema of Tied with the fields of order 0 as
\* declared, and the schema of TiedWide with the last field, of order 0,
\* before the first, of order 0
C23_Witness ==
    /\ pc = "schema"
    /\ {"Tied", "TiedWide"} \subseteq DOMAIN formatterCache
    /\ formatterCache["Tied"].fields[1].name = "Third"
    /\ formatterCache["Tied"].fields[2].name = "Fifth"
    /\ formatterCache["TiedWide"].fields[1].index = InsertionSorted
    /\ formatterCache["TiedWide"].fields[2].index = 0

====
